---------------------------- MODULE Spec2Model ----------------------------
(***************************************************************************)
(* Live-editing synchronisation of a server-rendered page: the embedded    *)
(* sync channel of src/src/lib/preview-runtime.ts (cross-window messages   *)
(* reconciled against the DOM) and the helpers it shares with the remote   *)
(* hydration channel of src/src/lib/manifest-injector.ts.                  *)
(*                                                                         *)
(* JavaScript strings are modelled as sequences of lexemes, cut finely     *)
(* enough that every startsWith / endsWith / includes / slice test of the  *)
(* code falls on a lexeme boundary: "http://localhost:3000" is             *)
(* <<"http://", "localhost", ":3000">>, "title__style" is                  *)
(* <<"title", "__style">>.  JavaScript values are tagged records.  The DOM *)
(* is a tree of element records; a node is named by its path, the sequence *)
(* of child indexes from the document body.                                *)
(***************************************************************************)
EXTENDS Integers, Sequences, FiniteSets

VARIABLES
    isPreview,       \* preview-runtime.ts:54  ?preview=true was in the URL
    embedded,        \* window.parent !== window
    parentOrigin,    \* preview-runtime.ts:49  _parentOrigin
    highlightedEl,   \* preview-runtime.ts:50  _highlightedEl (a path, or NoEl)
    dom,             \* the document body and everything below it
    rootStyle,       \* document.documentElement.style custom properties
    focused,         \* the element holding keyboard focus (a path, or NoEl)
    posted,          \* postMessage calls made by the last step: <<[msg, target]>>
    threw,           \* the last step's handler ended in an uncaught error
    hydration,       \* manifest-injector.ts:34  where initManifestInjector stands
    fetched,         \* manifest-injector.ts:46  the URLs fetch() was called with
    applied          \* history: (section, field path) -> the value last written to it

vars == <<isPreview, embedded, parentOrigin, highlightedEl, dom, rootStyle,
          focused, posted, threw, hydration, fetched, applied>>

----------------------------------------------------------------------------
(* Bounds of the model. *)

\* longest items array an array update carries
MaxItems == 2
\* most inline-edit binding lifecycles followed on one node
MaxBind == 2

----------------------------------------------------------------------------
(* JavaScript strings and values. *)

S(x) == <<x>>
EmptyStr == <<>>

startsWith(s, prefix) ==
    /\ Len(s) >= Len(prefix)
    /\ SubSeq(s, 1, Len(prefix)) = prefix

endsWith(s, suffix) ==
    /\ Len(s) >= Len(suffix)
    /\ SubSeq(s, Len(s) - Len(suffix) + 1, Len(s)) = suffix

includes(s, part) ==
    \E i \in 0..(Len(s) - Len(part)) : SubSeq(s, i + 1, i + Len(part)) = part

\* s.slice(0, -n) where the last n characters are exactly the lexeme tail
sliceOff(s, tail) == SubSeq(s, 1, Len(s) - Len(tail))

Undef == [t |-> "undefined"]
Null == [t |-> "null"]
Str(s) == [t |-> "string", s |-> s]
Num(n) == [t |-> "number", n |-> n]
Bool(b) == [t |-> "boolean", b |-> b]
\* an object is its own enumerable entries, in insertion order
Obj(entries) == [t |-> "object", e |-> entries]
Arr(items) == [t |-> "array", a |-> items]
KV(k, v) == [k |-> k, v |-> v]

Digit(d) ==
    CASE d = 0 -> "0" [] d = 1 -> "1" [] d = 2 -> "2" [] d = 3 -> "3"
      [] d = 4 -> "4" [] d = 5 -> "5" [] d = 6 -> "6" [] d = 7 -> "7"
      [] d = 8 -> "8" [] d = 9 -> "9"

RECURSIVE NatStr(_)
NatStr(n) == IF n < 10 THEN Digit(n) ELSE NatStr(n \div 10) \o Digit(n % 10)

NumStr(n) == IF n < 0 THEN <<"-" \o NatStr(0 - n)>> ELSE <<NatStr(n)>>

RECURSIVE JsString(_)
RECURSIVE JoinFrom(_, _)
\* Array.prototype.join(","): null and undefined elements give ""
JoinFrom(a, i) ==
    IF i > Len(a) THEN EmptyStr
    ELSE (IF a[i].t \in {"null", "undefined"} THEN EmptyStr ELSE JsString(a[i]))
         \o (IF i < Len(a) THEN <<",">> ELSE EmptyStr)
         \o JoinFrom(a, i + 1)

\* String(value)
JsString(v) ==
    CASE v.t = "string" -> v.s
      [] v.t = "number" -> NumStr(v.n)
      [] v.t = "boolean" -> IF v.b THEN S("true") ELSE S("false")
      [] v.t = "null" -> S("null")
      [] v.t = "undefined" -> S("undefined")
      [] v.t = "object" -> S("[object Object]")
      [] v.t = "array" -> JoinFrom(v.a, 1)

\* !!value
Truthy(v) ==
    CASE v.t = "string" -> v.s # EmptyStr
      [] v.t = "number" -> v.n # 0
      [] v.t = "boolean" -> v.b
      [] v.t \in {"null", "undefined"} -> FALSE
      [] OTHER -> TRUE

isArray(v) == v.t = "array"
\* typeof value === 'object'
typeofObject(v) == v.t \in {"object", "array", "null"}
\* reading a property of null or undefined is a TypeError
Nullish(v) == v.t \in {"null", "undefined"}

HasKey(v, k) == v.t = "object" /\ \E i \in 1..Len(v.e) : v.e[i].k = k

\* value[k] for a non-nullish value: undefined when the property is absent
Prop(v, k) ==
    IF HasKey(v, k)
    THEN v.e[CHOOSE i \in 1..Len(v.e) : v.e[i].k = k].v
    ELSE Undef

\* Object.entries(value) for a non-nullish value
entries(v) ==
    CASE v.t = "object" -> v.e
      [] v.t = "array" -> [i \in 1..Len(v.a) |-> KV(NumStr(i - 1), v.a[i])]
      [] v.t = "string" -> [i \in 1..Len(v.s) |-> KV(NumStr(i - 1), Str(S(v.s[i])))]
      [] OTHER -> <<>>

----------------------------------------------------------------------------
(* The DOM: elements, CSS attribute selectors, inline styles. *)

\* an attribute that is not present on the element
NoAttr == <<"<absent>">>
\* a selector part that matches whatever is there
Any == <<"<any>">>
\* no element (null)
NoEl == <<0>>

NoStyle == [p \in {} |-> EmptyStr]

\* element.style[p]
getStyle(style, p) == IF p \in DOMAIN style THEN style[p] ELSE EmptyStr

\* element.style.removeProperty(p)
removeProperty(style, p) == [q \in (DOMAIN style) \ {p} |-> style[q]]

\* element.style[p] = v: the empty string removes the declaration
setStyle(style, p, v) ==
    IF v = EmptyStr THEN removeProperty(style, p)
    ELSE [q \in (DOMAIN style) \cup {p} |-> IF q = p THEN v ELSE style[q]]

\* An element.  attr holds the data-dr-* attributes; edit and click count the
\* listener sets setupInlineEditing and setupImageClickHandlers have attached.
El(tag, attr, text, src, href, style, kids) ==
    [tag |-> tag, attr |-> attr, text |-> text, src |-> src, href |-> href,
     style |-> style, ce |-> FALSE, edit |-> 0, click |-> 0, kids |-> kids]

NoAttrs == [section |-> NoAttr, field |-> NoAttr, list |-> NoAttr,
            item |-> NoAttr, style |-> NoAttr]

RECURSIVE NodeAt(_, _)
NodeAt(n, p) == IF p = <<>> THEN n ELSE NodeAt(n.kids[Head(p)], Tail(p))

RECURSIVE PutAt(_, _, _)
PutAt(n, p, m) ==
    IF p = <<>> THEN m
    ELSE [n EXCEPT !.kids[Head(p)] = PutAt(@, Tail(p), m)]

Prefixed(base, ps) == [j \in 1..Len(ps) |-> base \o ps[j]]

RECURSIVE KidsFrom(_, _)
\* the paths, relative to n, of the descendants of n in document order
KidsFrom(n, i) ==
    IF i > Len(n.kids) THEN <<>>
    ELSE <<<<i>>>> \o Prefixed(<<i>>, KidsFrom(n.kids[i], 1)) \o KidsFrom(n, i + 1)

Below(n) == KidsFrom(n, 1)

\* tag[data-dr-<attr>="val"]; tag Any is no tag test, val Any is [data-dr-<attr>]
Sel(tag, attr, val) == [tag |-> tag, attr |-> attr, val |-> val]

\* the selector that is a tag name alone
TagSel(tag) == [tag |-> S(tag), attr |-> "*", val |-> Any]

Matches(n, sel) ==
    /\ sel.tag = Any \/ <<n.tag>> = sel.tag
    /\ sel.attr = "*" \/ ( /\ n.attr[sel.attr] # NoAttr
                           /\ sel.val = Any \/ n.attr[sel.attr] = sel.val )

RECURSIVE FindFrom(_, _, _, _)
\* the paths of the descendants of n (which sits at base) that match sel, from
\* child i on, in document order
FindFrom(n, base, sel, i) ==
    IF i > Len(n.kids) THEN <<>>
    ELSE (IF Matches(n.kids[i], sel) THEN <<Append(base, i)>> ELSE <<>>)
         \o FindFrom(n.kids[i], Append(base, i), sel, 1)
         \o FindFrom(n, base, sel, i + 1)

\* base.querySelectorAll(sel): descendants of the element at base, document order
querySelectorAll(d, base, sel) == FindFrom(NodeAt(d, base), base, sel, 1)

\* the first of two lookups that found an element
orElse(found, next) == IF found # NoEl THEN found ELSE next

RECURSIVE FirstFrom(_, _, _, _)
\* the first of them, or NoEl
FirstFrom(n, base, sel, i) ==
    IF i > Len(n.kids) THEN NoEl
    ELSE IF Matches(n.kids[i], sel) THEN Append(base, i)
    ELSE orElse(FirstFrom(n.kids[i], Append(base, i), sel, 1),
                FirstFrom(n, base, sel, i + 1))

\* base.querySelector(sel): the first match, or null
querySelector(d, base, sel) == FirstFrom(NodeAt(d, base), base, sel, 1)

\* el.closest(sel): the nearest of el and its ancestors that matches, or null
closest(d, p, sel) ==
    LET hits == {k \in 0..Len(p) : Matches(NodeAt(d, SubSeq(p, 1, k)), sel)}
    IN  IF hits = {} THEN NoEl
        ELSE SubSeq(p, 1, CHOOSE k \in hits : \A j \in hits : j <= k)

\* el.textContent = s replaces the element's children by one text node
setText(n, s) == [n EXCEPT !.text = s, !.kids = <<>>]

RECURSIVE removeItems(_)
\* every [data-dr-list-item] descendant of n removed (item.remove() on each)
removeItems(n) ==
    LET keep == SelectSeq(n.kids, LAMBDA k : k.attr.item = NoAttr)
    IN  [n EXCEPT !.kids = [i \in 1..Len(keep) |-> removeItems(keep[i])]]

\* cloneNode(true): attributes, inline style and subtree are copied, listeners
\* registered with addEventListener are not
RECURSIVE cloneNode(_)
cloneNode(n) ==
    [n EXCEPT !.edit = 0, !.click = 0,
              !.kids = [i \in 1..Len(n.kids) |-> cloneNode(n.kids[i])]]

\* The mutable world a handler runs in: the document, the highlighted element,
\* the root's custom properties, and whether an uncaught error ended the handler.
World(d, hl, root) == [dom |-> d, hl |-> hl, root |-> root, err |-> FALSE]

raise(w) == [w EXCEPT !.err = TRUE]

sectionSel(sectionId) == Sel(Any, "section", JsString(sectionId))

----------------------------------------------------------------------------
(* preview-runtime.ts: the appliers. *)

_allowedStyleProps ==
    { "textAlign", "fontWeight", "fontSize", "letterSpacing",
      "lineHeight", "color", "textTransform", "opacity",
      "paddingTop", "paddingBottom", "paddingLeft", "paddingRight",
      "marginTop", "marginBottom",
      "gap", "justifyContent", "alignItems", "flexDirection",
      "backgroundColor", "borderRadius" }

\* el.style.removeProperty('display')
unhide(n) == [n EXCEPT !.style = removeProperty(@, "display")]

\* a write that treats every node as text
writeContent_textOnly(n, field, str) == setText(n, str)

\* the write by node role: image source, link target, or text
writeContent(n, field, str) ==
    IF n.tag = "img" THEN [n EXCEPT !.src = str]
    ELSE IF n.tag = "a" /\ includes(field, S("href")) THEN [n EXCEPT !.href = str]
    ELSE setText(n, str)

writeByRole(n, field, value) == writeContent(unhide(n), field, JsString(value))

\* a write that clears the display override before it tests the value
writeField_unhidesNull(w, el, field, value) ==
    IF el = NoEl THEN w
    ELSE IF Nullish(value)
    THEN [w EXCEPT !.dom = PutAt(@, el, unhide(NodeAt(w.dom, el)))]
    ELSE [w EXCEPT !.dom = PutAt(@, el, writeByRole(NodeAt(w.dom, el), field, value))]

\* updateFieldElement once el is located
writeField(w, el, field, value) ==
    IF el = NoEl THEN w
    ELSE IF Nullish(value) THEN w
    ELSE [w EXCEPT !.dom = PutAt(@, el, writeByRole(NodeAt(w.dom, el), field, value))]

\* a write that only fills a node that shows no text yet
updateFieldElement_firstWins(w, container, field, value) ==
    IF querySelector(w.dom, container, Sel(Any, "field", field)) = NoEl THEN w
    ELSE IF NodeAt(w.dom, querySelector(w.dom, container, Sel(Any, "field", field))).text
              # EmptyStr
    THEN w
    ELSE writeField(w, querySelector(w.dom, container, Sel(Any, "field", field)),
                    field, value)

updateFieldElement(w, container, field, value) ==
    writeField(w, querySelector(w.dom, container, Sel(Any, "field", field)), field, value)

\* if (el) el.textContent = str, inside the subtree it
setTextAt(it, el, str) ==
    IF el = NoEl THEN it ELSE PutAt(it, el, setText(NodeAt(it, el), str))

RECURSIVE fillSubKeys(_, _, _, _)
\* the nested-object branch: key.subKey fields of the item
fillSubKeys(it, key, sub, i) ==
    IF i > Len(sub) THEN it
    ELSE fillSubKeys(setTextAt(it,
                        querySelector(it, <<>>, Sel(Any, "field", key \o S(".") \o sub[i].k)),
                        JsString(sub[i].v)),
                     key, sub, i + 1)

\* if (itemData.href) fieldEl.href = String(itemData.href)
linkItem(n, href) == IF Truthy(href) THEN [n EXCEPT !.href = JsString(href)] ELSE n

\* the write by node role inside a list item
fillRole(n, itemData, str) ==
    IF n.tag = "img" THEN [n EXCEPT !.src = str]
    ELSE IF n.tag = "a" THEN linkItem(setText(n, str), Prop(itemData, S("href")))
    ELSE setText(n, str)

fillKeyAt(newItem, fieldEl, itemData, value) ==
    IF fieldEl = NoEl THEN newItem
    ELSE PutAt(newItem, fieldEl,
               fillRole(NodeAt(newItem, fieldEl), itemData, JsString(value)))

\* one (key, value) entry of an object item written into the copied template
fillItemKey(newItem, itemData, key, value) ==
    IF typeofObject(value) /\ ~Nullish(value) /\ ~isArray(value)
    THEN fillSubKeys(newItem, key, entries(value), 1)
    ELSE fillKeyAt(newItem, querySelector(newItem, <<>>, Sel(Any, "field", key)),
                   itemData, value)

RECURSIVE fillKeys(_, _, _, _)
fillKeys(it, itemData, es, i) ==
    IF i > Len(es) THEN it
    ELSE fillKeys(fillItemKey(it, itemData, es[i].k, es[i].v), itemData, es, i + 1)

\* a fresh copy of the template populated from one entry of items
fillCopy(newItem, itemData) ==
    IF ~typeofObject(itemData) \/ itemData.t = "null"
    THEN setTextAt(newItem, querySelector(newItem, <<>>, Sel(Any, "field", Any)),
                   JsString(itemData))
    ELSE fillKeys(newItem, itemData, entries(itemData), 1)

fillItem(templateClone, itemData) == fillCopy(cloneNode(templateClone), itemData)

\* for (const itemData of items) ... listEl.appendChild(newItem)
appendItems(cleared, templateClone, items) ==
    [cleared EXCEPT !.kids =
        @ \o [i \in 1..Len(items) |-> fillItem(templateClone, items[i])]]

\* a rebuild that appends to the items already there
rebuild_keepsOld(listEl, templateItem, items) ==
    IF templateItem = NoEl THEN listEl
    ELSE appendItems(listEl, cloneNode(NodeAt(listEl, templateItem)), items)

\* the forEach body once the template item is looked up
rebuild(listEl, templateItem, items) ==
    IF templateItem = NoEl THEN listEl
    ELSE appendItems(removeItems(listEl), cloneNode(NodeAt(listEl, templateItem)), items)

\* the body of listEls.forEach for one list container
reconcileList(listEl, items) ==
    rebuild(listEl, querySelector(listEl, <<>>, Sel(Any, "item", Any)), items)

RECURSIVE reconcileAll(_, _, _, _)
reconcileAll(d, listEls, items, i) ==
    IF i > Len(listEls) THEN d
    ELSE reconcileAll(PutAt(d, listEls[i], reconcileList(NodeAt(d, listEls[i]), items)),
                      listEls, items, i + 1)

\* a lookup that takes the fallback's containers along with the named ones
withFallback_both(d, container, primary, fallbackListName) ==
    primary \o querySelectorAll(d, container, Sel(Any, "list", JsString(fallbackListName)))

\* the containers named listName, else those named by the fallback
withFallback(d, container, primary, fallbackListName) ==
    IF primary = <<>> /\ Truthy(fallbackListName)
    THEN querySelectorAll(d, container, Sel(Any, "list", JsString(fallbackListName)))
    ELSE primary

updateArrayField(w, container, listName, items, fallbackListName) ==
    [w EXCEPT !.dom =
        reconcileAll(@, withFallback(w.dom, container,
                            querySelectorAll(w.dom, container, Sel(Any, "list", listName)),
                            fallbackListName),
                     items, 1)]

fieldUpdateIn(w, sectionEl, sectionId, field, value) ==
    IF sectionEl = NoEl THEN w
    ELSE IF isArray(value)
    THEN updateArrayField(w, sectionEl, JsString(field), value.a, sectionId)
    ELSE updateFieldElement(w, sectionEl, JsString(field), value)

handleFieldUpdate(w, sectionId, field, value) ==
    fieldUpdateIn(w, querySelector(w.dom, <<>>, sectionSel(sectionId)),
                  sectionId, field, value)

\* a toggle that hides and never restores
toggleAt_hideOnly(w, sectionEl, enabled) ==
    IF sectionEl = NoEl \/ Truthy(enabled) THEN w
    ELSE [w EXCEPT !.dom = PutAt(@, sectionEl,
            [NodeAt(w.dom, sectionEl) EXCEPT !.style = setStyle(@, "display", S("none"))])]

\* sectionEl.style.display = enabled ? '' : 'none'
toggleAt(w, sectionEl, enabled) ==
    IF sectionEl = NoEl THEN w
    ELSE [w EXCEPT !.dom = PutAt(@, sectionEl,
            [NodeAt(w.dom, sectionEl) EXCEPT !.style =
                setStyle(@, "display", IF Truthy(enabled) THEN EmptyStr ELSE S("none"))])]

handleSectionToggle(w, sectionId, enabled) ==
    toggleAt(w, querySelector(w.dom, <<>>, sectionSel(sectionId)), enabled)

\* el.style[prop] = value for one entry of the style map
\* the string a style property setter receives: null counts as ''
cssText(value) == IF value.t = "null" THEN EmptyStr ELSE JsString(value)

\* an applier without the allow-list test
applyStyleEntry_any(style, prop, value) ==
    IF Len(prop) = 1 THEN setStyle(style, prop[1], cssText(value)) ELSE style

applyStyleEntry(style, prop, value) ==
    IF Len(prop) = 1 /\ prop[1] \in _allowedStyleProps
    THEN setStyle(style, prop[1], cssText(value))
    ELSE style

RECURSIVE applyStyles(_, _, _)
applyStyles(style, es, i) ==
    IF i > Len(es) THEN style
    ELSE applyStyles(applyStyleEntry(style, es[i].k, es[i].v), es, i + 1)

\* the loop of handleStyleUpdate over the resolved element
styleAt(w, el, styles) ==
    IF el = NoEl THEN w
    ELSE IF Nullish(styles) THEN raise(w)
    ELSE [w EXCEPT !.dom = PutAt(@, el,
            [NodeAt(w.dom, el) EXCEPT !.style = applyStyles(@, entries(styles), 1)])]

\* the section itself for __section, else its [data-dr-style] descendant
styleTarget(d, sectionEl, field) ==
    IF sectionEl = NoEl THEN NoEl
    ELSE IF field = Str(S("__section")) THEN sectionEl
    ELSE querySelector(d, sectionEl, Sel(Any, "style", JsString(field)))

handleStyleUpdate(w, sectionId, field, styles) ==
    styleAt(w, styleTarget(w.dom, querySelector(w.dom, <<>>, sectionSel(sectionId)), field),
            styles)

HighlightOutline == S("2px solid rgba(59, 130, 246, 0.5)")

\* a clear that forgets the outline of the node it lets go
clearHighlight_keeps(w) == [w EXCEPT !.hl = NoEl]

\* if (_highlightedEl) { clear its outline; _highlightedEl = null }
clearHighlight(w) ==
    IF w.hl = NoEl THEN w
    ELSE [w EXCEPT !.dom = PutAt(@, w.hl,
            [NodeAt(w.dom, w.hl) EXCEPT !.style =
                setStyle(setStyle(@, "outline", EmptyStr), "outlineOffset", EmptyStr)]),
                   !.hl = NoEl]

outlineAt(w, el) ==
    IF el = NoEl THEN w
    ELSE [w EXCEPT !.dom = PutAt(@, el,
            [NodeAt(w.dom, el) EXCEPT !.style =
                setStyle(setStyle(@, "outline", HighlightOutline),
                         "outlineOffset", S("-2px"))]),
                   !.hl = el]

highlightIn(cleared, sectionId) ==
    IF ~Truthy(sectionId) THEN cleared
    ELSE outlineAt(cleared, querySelector(cleared.dom, <<>>, sectionSel(sectionId)))

handleSectionHighlight(w, sectionId) == highlightIn(clearHighlight(w), sectionId)

\* themeData?.<k> ?? {}
themePart(themeData, k) ==
    IF Nullish(themeData) \/ Nullish(Prop(themeData, S(k))) THEN Obj(<<>>)
    ELSE Prop(themeData, S(k))

\* a writer that clears the property of an absent leaf
setVar_clears(root, from, k, name) ==
    IF Truthy(Prop(from, S(k))) THEN setStyle(root, name, JsString(Prop(from, S(k))))
    ELSE removeProperty(root, name)

\* if (from.<k>) style.setProperty(name, from.<k>)
setVar(root, from, k, name) ==
    IF Truthy(Prop(from, S(k))) THEN setStyle(root, name, JsString(Prop(from, S(k))))
    ELSE root

themeColors(root, colors) ==
    setVar(setVar(setVar(setVar(setVar(setVar(root,
        colors, "primary", "--primary"),
        colors, "primaryForeground", "--primary-foreground"),
        colors, "background", "--background"),
        colors, "surface", "--surface"),
        colors, "muted", "--muted"),
        colors, "border", "--border")

themeTypography(root, typography) ==
    setVar(setVar(root, typography, "fontSans", "--font-sans"),
           typography, "fontSerif", "--font-serif")

applyThemeCssVars(w, themeData) ==
    [w EXCEPT !.root =
        setVar(themeTypography(themeColors(@, themePart(themeData, "colors")),
                               themePart(themeData, "typography")),
               themePart(themeData, "radius"), "base", "--radius")]

\* the forEach body of setupInlineEditing for one [data-dr-field] element
bindField(doc, el) ==
    IF NodeAt(doc, el).tag = "img" THEN doc
    ELSE IF closest(doc, el, Sel(Any, "item", Any)) # NoEl THEN doc
    ELSE PutAt(doc, el,
               [NodeAt(doc, el) EXCEPT
                  !.ce = TRUE,
                  !.style = setStyle(setStyle(@, "outline", S("none")), "cursor", S("text")),
                  !.edit = @ + 1])

RECURSIVE bindFields(_, _, _)
bindFields(doc, fields, i) ==
    IF i > Len(fields) THEN doc ELSE bindFields(bindField(doc, fields[i]), fields, i + 1)

\* every [data-dr-field] element of the document that is no image and lies in
\* no list item is made editable and gets one more focus/blur/input listener set
setupInlineEditing(d) ==
    bindFields(d, querySelectorAll(d, <<>>, Sel(Any, "field", Any)), 1)

RECURSIVE bindImages(_, _, _)
bindImages(doc, images, i) ==
    IF i > Len(images) THEN doc
    ELSE bindImages(PutAt(doc, images[i],
                      [NodeAt(doc, images[i]) EXCEPT
                         !.style = setStyle(setStyle(@, "cursor", S("pointer")),
                                            "transition", S("outline 0.15s ease")),
                         !.click = @ + 1]),
                    images, i + 1)

\* every img[data-dr-field] of the document gets one more mouseenter/mouseleave/
\* click listener set
setupImageClickHandlers(d) ==
    bindImages(d, querySelectorAll(d, <<>>, Sel(S("img"), "field", Any)), 1)

RECURSIVE nestedFields(_, _, _, _, _)
\* "Nested object — update dot-notation fields"
nestedFields(w, sectionEl, field, es, i) ==
    IF i > Len(es) THEN w
    ELSE nestedFields(updateFieldElement(w, sectionEl, field \o S(".") \o es[i].k, es[i].v),
                      sectionEl, field, es, i + 1)

\* value.forEach((item, index) => ...) for one item
arrayItemFields(w, sectionEl, field, item, index) ==
    IF Truthy(item) /\ typeofObject(item)
    THEN nestedFields(w, sectionEl, field \o S(".") \o NumStr(index), entries(item), 1)
    ELSE updateFieldElement(w, sectionEl, field \o S(".") \o NumStr(index), item)

RECURSIVE arrayFields(_, _, _, _, _)
arrayFields(w, sectionEl, field, a, i) ==
    IF i > Len(a) THEN w
    ELSE arrayFields(arrayItemFields(w, sectionEl, field, a[i], i - 1),
                     sectionEl, field, a, i + 1)

\* the loop body of handleFullUpdate for one (field, value) of a section's data
fullUpdateField(w, sectionId, sectionEl, field, value) ==
    IF endsWith(field, S("__style")) /\ typeofObject(value) /\ ~Nullish(value)
       /\ ~isArray(value)
    THEN handleStyleUpdate(w, Str(sectionId), Str(sliceOff(field, S("__style"))), value)
    ELSE IF typeofObject(value) /\ ~isArray(value) /\ ~Nullish(value)
    THEN nestedFields(w, sectionEl, field, entries(value), 1)
    ELSE IF isArray(value)
    THEN arrayFields(updateArrayField(w, sectionEl, field, value.a, Str(sectionId)),
                     sectionEl, field, value.a, 1)
    ELSE updateFieldElement(w, sectionEl, field, value)

RECURSIVE sectionToggles(_, _, _)
\* for (const [sectionId, config] of Object.entries(sections))
sectionToggles(w, secs, i) ==
    IF i > Len(secs) \/ w.err THEN w
    ELSE IF Nullish(secs[i].v) THEN raise(w)
    ELSE sectionToggles(handleSectionToggle(w, Str(secs[i].k),
                                            Prop(secs[i].v, S("enabled"))),
                        secs, i + 1)

RECURSIVE sectionFields(_, _, _, _, _)
\* for (const [field, value] of Object.entries(sectionData))
sectionFields(w, sectionId, sectionEl, es, i) ==
    IF i > Len(es) \/ w.err THEN w
    ELSE sectionFields(fullUpdateField(w, sectionId, sectionEl, es[i].k, es[i].v),
                       sectionId, sectionEl, es, i + 1)

\* the loop body over data for one section that is not the theme
sectionDataIn(w, sectionEl, sectionId, sectionData) ==
    IF sectionEl = NoEl THEN w
    ELSE IF Nullish(sectionData) THEN raise(w)
    ELSE sectionFields(w, sectionId, sectionEl, entries(sectionData), 1)

\* a router that knows no theme section
sectionData_noTheme(w, sectionId, data) ==
    sectionDataIn(w, querySelector(w.dom, <<>>, Sel(Any, "section", sectionId)),
                  sectionId, data)

sectionData(w, sectionId, data) ==
    IF sectionId = S("theme") THEN applyThemeCssVars(w, data)
    ELSE sectionDataIn(w, querySelector(w.dom, <<>>, Sel(Any, "section", sectionId)),
                       sectionId, data)

RECURSIVE dataSections(_, _, _)
\* for (const [sectionId, sectionData] of Object.entries(data))
dataSections(w, ds, i) ==
    IF i > Len(ds) \/ w.err THEN w
    ELSE dataSections(sectionData(w, ds[i].k, ds[i].v), ds, i + 1)

toggleSections(w, sections) ==
    IF Nullish(sections) THEN raise(w) ELSE sectionToggles(w, entries(sections), 1)

updateSections(toggled, data) ==
    IF toggled.err THEN toggled
    ELSE IF Nullish(data) THEN raise(toggled)
    ELSE dataSections(toggled, entries(data), 1)

\* "Re-bind inline editing for any new/replaced DOM nodes"
rebind(updated) ==
    IF updated.err THEN updated ELSE [updated EXCEPT !.dom = setupInlineEditing(@)]

handleFullUpdate(w, data, sections) ==
    rebind(updateSections(toggleSections(w, sections), data))

----------------------------------------------------------------------------
(* manifest-injector.ts: remote hydration. *)

\* updateField once el is located (the role write is the same code as in
\* updateFieldElement)
inj_writeField(w, el, field, value) ==
    IF el = NoEl \/ Nullish(value) THEN w
    ELSE [w EXCEPT !.dom = PutAt(@, el, writeByRole(NodeAt(w.dom, el), field, value))]

\* a write that only fills a node that shows no text yet
inj_updateField_ifEmpty(w, container, field, value) ==
    IF querySelector(w.dom, container, Sel(Any, "field", field)) = NoEl THEN w
    ELSE IF NodeAt(w.dom, querySelector(w.dom, container, Sel(Any, "field", field))).text
              # EmptyStr
    THEN w
    ELSE inj_writeField(w, querySelector(w.dom, container, Sel(Any, "field", field)),
                        field, value)

inj_updateField(w, container, field, value) ==
    inj_writeField(w, querySelector(w.dom, container, Sel(Any, "field", field)),
                   field, value)

RECURSIVE inj_fillKeys(_, _, _, _)
\* for (const [key, value] of Object.entries(itemData))
inj_fillKeys(it, itemData, es, i) ==
    IF i > Len(es) THEN it
    ELSE inj_fillKeys(fillKeyAt(it, querySelector(it, <<>>, Sel(Any, "field", es[i].k)),
                                itemData, es[i].v),
                      itemData, es, i + 1)

inj_fillItem(templateClone, itemData) ==
    inj_fillKeys(cloneNode(templateClone), itemData, entries(itemData), 1)

\* the items before the first null or undefined one: Object.entries(itemData)
\* throws there, after the earlier items were appended
beforeNullish(items) ==
    SubSeq(items, 1,
           IF \E i \in 1..Len(items) : Nullish(items[i])
           THEN (CHOOSE i \in 1..Len(items) :
                    Nullish(items[i]) /\ \A j \in 1..(i - 1) : ~Nullish(items[j])) - 1
           ELSE Len(items))

inj_appendItems(cleared, templateClone, items) ==
    [cleared EXCEPT !.kids =
        @ \o [i \in 1..Len(items) |-> inj_fillItem(templateClone, items[i])]]

inj_rebuild(listEl, templateItem, items) ==
    IF templateItem = NoEl THEN listEl
    ELSE inj_appendItems(removeItems(listEl), cloneNode(NodeAt(listEl, templateItem)),
                         beforeNullish(items))

inj_reconcileList(listEl, items) ==
    inj_rebuild(listEl, querySelector(listEl, <<>>, Sel(Any, "item", Any)), items)

\* the container whose rebuild throws ends the forEach
inj_throwsAt(d, listEl, items) ==
    /\ querySelector(NodeAt(d, listEl), <<>>, Sel(Any, "item", Any)) # NoEl
    /\ \E i \in 1..Len(items) : Nullish(items[i])

RECURSIVE inj_reconcileAll(_, _, _, _)
inj_reconcileAll(w, listEls, items, i) ==
    IF i > Len(listEls) \/ w.err THEN w
    ELSE inj_reconcileAll(
            [w EXCEPT !.dom = PutAt(@, listEls[i],
                                    inj_reconcileList(NodeAt(w.dom, listEls[i]), items)),
                      !.err = inj_throwsAt(w.dom, listEls[i], items)],
            listEls, items, i + 1)

inj_updateArrayField(w, container, listName, items) ==
    inj_reconcileAll(w, querySelectorAll(w.dom, container, Sel(Any, "list", listName)),
                     items, 1)

\* index.set(key, item): a Map keeps the position of a key it already holds
mapSet(index, key, item) ==
    IF \E i \in 1..Len(index) : index[i].k = key
    THEN [i \in 1..Len(index) |-> IF index[i].k = key THEN KV(key, item) ELSE index[i]]
    ELSE Append(index, KV(key, item))

\* index.get(key)
mapGet(index, key) ==
    IF \E i \in 1..Len(index) : index[i].k = key
    THEN index[CHOOSE i \in 1..Len(index) : index[i].k = key].v
    ELSE Undef

\* value ?? []  over the elements of an array
orEmpty(v) == IF Nullish(v) THEN <<>> ELSE IF isArray(v) THEN v.a ELSE <<>>

RECURSIVE indexItems(_, _, _)
\* for (const item of col.data ?? []) if (item.id) index.set(item.id, item)
indexItems(ix, items, i) ==
    IF i > Len(items) \/ ix.err THEN ix
    ELSE IF Nullish(items[i]) THEN [ix EXCEPT !.err = TRUE]
    ELSE indexItems(IF Truthy(Prop(items[i], S("id")))
                    THEN [ix EXCEPT !.map = mapSet(@, Prop(items[i], S("id")), items[i])]
                    ELSE ix,
                    items, i + 1)

RECURSIVE indexCollections(_, _, _)
\* for (const col of manifest.collections ?? [])
indexCollections(ix, cols, i) ==
    IF i > Len(cols) \/ ix.err THEN ix
    ELSE IF Nullish(cols[i]) THEN [ix EXCEPT !.err = TRUE]
    ELSE indexCollections(indexItems(ix, orEmpty(Prop(cols[i], S("data"))), 1),
                          cols, i + 1)

\* the collection item index of applyManifest: [map, err]
collectionIndex(manifest) ==
    indexCollections([map |-> <<>>, err |-> FALSE],
                     orEmpty(Prop(manifest, S("collections"))), 1)

RECURSIVE mapRefs(_, _, _)
\* refs.map((id) => index.get(id)).filter((item) => !!item)
mapRefs(refs, index, i) ==
    IF i > Len(refs) THEN <<>>
    ELSE (IF Truthy(mapGet(index, refs[i])) THEN <<mapGet(index, refs[i])>> ELSE <<>>)
         \o mapRefs(refs, index, i + 1)

\* data[key] = value on the copy: an existing key keeps its place
objSet(es, key, value) ==
    IF \E i \in 1..Len(es) : es[i].k = key
    THEN [i \in 1..Len(es) |-> IF es[i].k = key THEN KV(key, value) ELSE es[i]]
    ELSE Append(es, KV(key, value))

\* the body of the schema loop for one (key, fieldSchema)
resolveKey(data, key, fieldSchema, index) ==
    IF /\ Prop(fieldSchema, S("uiWidget")) = Str(S("collectionPicker"))
       /\ isArray(Prop(Obj(data), key))
       /\ Len(Prop(Obj(data), key).a) > 0
       /\ Prop(Obj(data), key).a[1].t = "string"
    THEN objSet(data, key, Arr(mapRefs(Prop(Obj(data), key).a, index, 1)))
    ELSE data

RECURSIVE resolveKeys(_, _, _, _)
\* [entries of the resolved copy, err]
resolveKeys(r, schema, index, i) ==
    IF i > Len(schema) \/ r.err THEN r
    ELSE IF Nullish(schema[i].v) THEN [r EXCEPT !.err = TRUE]
    ELSE resolveKeys([r EXCEPT !.data = resolveKey(@, schema[i].k, schema[i].v, index)],
                     schema, index, i + 1)

\* section.schema?.properties ?? {}
schemaProperties(section) ==
    IF Nullish(Prop(section, S("schema"))) THEN <<>>
    ELSE IF Nullish(Prop(Prop(section, S("schema")), S("properties"))) THEN <<>>
    ELSE entries(Prop(Prop(section, S("schema")), S("properties")))

\* resolveCollectionRefs(section, index): [data (the entries of the copy), err]
resolveCollectionRefs(section, index) ==
    resolveKeys([data |-> entries(Prop(section, S("data"))), err |-> FALSE],
                schemaProperties(section), index, 1)

RECURSIVE inj_nestedFields(_, _, _, _, _)
\* "Nested object — update dot-notation fields"
inj_nestedFields(w, sectionEl, field, es, i) ==
    IF i > Len(es) THEN w
    ELSE inj_nestedFields(inj_updateField(w, sectionEl, field \o S(".") \o es[i].k, es[i].v),
                          sectionEl, field, es, i + 1)

\* the loop body of applyManifest for one (field, value) of a section's data
inj_applyField(w, sectionEl, field, value) ==
    IF endsWith(field, S("__style")) THEN w
    ELSE IF typeofObject(value) /\ ~isArray(value) /\ ~Nullish(value)
    THEN inj_nestedFields(w, sectionEl, field, entries(value), 1)
    ELSE IF isArray(value) THEN inj_updateArrayField(w, sectionEl, field, value.a)
    ELSE inj_updateField(w, sectionEl, field, value)

RECURSIVE inj_applyFields(_, _, _, _)
inj_applyFields(w, sectionEl, es, i) ==
    IF i > Len(es) \/ w.err THEN w
    ELSE inj_applyFields(inj_applyField(w, sectionEl, es[i].k, es[i].v),
                         sectionEl, es, i + 1)

inj_applyResolved(w, sectionEl, resolved) ==
    IF resolved.err THEN raise(w) ELSE inj_applyFields(w, sectionEl, resolved.data, 1)

\* the loop body of applyManifest for one section, once its element is looked up
inj_applySectionAt(w, sectionEl, section, index) ==
    IF sectionEl = NoEl THEN w
    ELSE IF Prop(section, S("enabled")) = Bool(FALSE)
    THEN toggleAt(w, sectionEl, Bool(FALSE))
    ELSE IF ~Truthy(Prop(section, S("data"))) THEN toggleAt(w, sectionEl, Bool(TRUE))
    ELSE inj_applyResolved(toggleAt(w, sectionEl, Bool(TRUE)), sectionEl,
                           resolveCollectionRefs(section, index))

inj_applySection(w, section, index) ==
    IF Nullish(section) THEN raise(w)
    ELSE IF Prop(section, S("id")) = Str(S("theme")) THEN w
    ELSE inj_applySectionAt(w,
            querySelector(w.dom, <<>>, sectionSel(Prop(section, S("id")))),
            section, index)

RECURSIVE inj_applySections(_, _, _, _)
inj_applySections(w, sections, index, i) ==
    IF i > Len(sections) \/ w.err THEN w
    ELSE inj_applySections(inj_applySection(w, sections[i], index), sections, index, i + 1)

\* manifest.sections.find((s) => s.id === 'theme'): [found, section, err]
findTheme(sections) ==
    LET hit(i) == Nullish(sections[i]) \/ Prop(sections[i], S("id")) = Str(S("theme"))
    IN  IF \E i \in 1..Len(sections) : hit(i)
        THEN LET k == CHOOSE i \in 1..Len(sections) :
                          hit(i) /\ \A j \in 1..(i - 1) : ~hit(j)
             IN  IF Nullish(sections[k]) THEN [found |-> FALSE, section |-> Undef, err |-> TRUE]
                 ELSE [found |-> TRUE, section |-> sections[k], err |-> FALSE]
        ELSE [found |-> FALSE, section |-> Undef, err |-> FALSE]

\* if (themeSection?.data) applyThemeCssVars(themeSection.data)
inj_applyTheme(w, theme) ==
    IF theme.err THEN raise(w)
    ELSE IF theme.found /\ Truthy(Prop(theme.section, S("data")))
    THEN applyThemeCssVars(w, Prop(theme.section, S("data")))
    ELSE w

inj_afterIndex(w, manifest, ix) ==
    IF ix.err THEN raise(w)
    ELSE inj_applySections(inj_applyTheme(w, findTheme(Prop(manifest, S("sections")).a)),
                           Prop(manifest, S("sections")).a, ix.map, 1)

applyManifest(w, manifest) == inj_afterIndex(w, manifest, collectionIndex(manifest))

\* a test that lets every http URL through
urlAllowed_anyHttp(url) ==
    startsWith(url, S("https://")) \/ startsWith(url, S("http://"))

\* the manifest URL test of initManifestInjector: TRUE when the fetch is issued
urlAllowed(url) ==
    ~ ( /\ ~startsWith(url, S("https://"))
        /\ ~startsWith(url, <<"http://", "localhost">>)
        /\ ~startsWith(url, <<"http://", "127.0.0.1">>) )

----------------------------------------------------------------------------
(* preview-runtime.ts: the embedded sync channel. *)

\* window.location.origin
PageOrigin == <<"http://", "site.test">>

\* _parentOrigin before any message is admitted
Unlatched == S("*")

\* the origin test of handleMessage: TRUE when the message is not dropped
originAdmitted(origin) ==
    ~ ( /\ origin # PageOrigin
        /\ ~startsWith(origin, <<"http://", "localhost">>)
        /\ ~startsWith(origin, <<"http://", "127.0.0.1">>)
        /\ ~startsWith(origin, <<"https://", "localhost">>)
        /\ ~startsWith(origin, <<"https://", "127.0.0.1">>)
        /\ ~endsWith(origin, S(".pages.dev"))
        /\ ~startsWith(origin, S("https://")) )

\* a latch that follows every admitted message
latch_always(po, origin) == origin

\* "Lock in parent origin from first valid message"
latch(po, origin) == IF po = Unlatched THEN origin ELSE po

T(x) == Str(S(x))

\* the switch of handleMessage
dispatch(w, msg) ==
    LET type == Prop(msg, S("type"))
        arg(k) == Prop(msg, S(k))
    IN  CASE type = T("full-update") -> handleFullUpdate(w, arg("data"), arg("sections"))
          [] type = T("field-update") ->
                handleFieldUpdate(w, arg("sectionId"), arg("field"), arg("value"))
          [] type = T("section-toggle") ->
                handleSectionToggle(w, arg("sectionId"), arg("enabled"))
          [] type = T("style-update") ->
                handleStyleUpdate(w, arg("sectionId"), arg("field"), arg("styles"))
          [] type = T("section-highlight") -> handleSectionHighlight(w, arg("sectionId"))
          \* scrollIntoView moves the viewport only
          [] type = T("scroll-to-section") -> w
          [] OTHER -> w

\* a handler that, once an origin is latched, hears that origin alone
handleMessage_latchedOnly(w, po, origin, data) ==
    IF ~originAdmitted(origin) \/ (po # Unlatched /\ origin # po)
    THEN [w |-> w, po |-> po]
    ELSE IF ~Truthy(data) \/ ~Truthy(Prop(data, S("type")))
    THEN [w |-> w, po |-> latch(po, origin)]
    ELSE [w |-> dispatch(w, data), po |-> latch(po, origin)]

\* handleMessage(event): the world and the parent origin after the handler
handleMessage(w, po, origin, data) ==
    IF ~originAdmitted(origin) THEN [w |-> w, po |-> po]
    ELSE IF ~Truthy(data) \/ ~Truthy(Prop(data, S("type")))
    THEN [w |-> w, po |-> latch(po, origin)]
    ELSE [w |-> dispatch(w, data), po |-> latch(po, origin)]

\* a sender that broadcasts
sendToParent_broadcast(emb, po, message) ==
    IF emb THEN <<[msg |-> message, target |-> Unlatched]>> ELSE <<>>

\* sendToParent(message): the postMessage calls of one handler run
sendToParent(emb, po, message) ==
    IF emb THEN <<[msg |-> message, target |-> po]>> ELSE <<>>

\* getSectionId(el)
getSectionId(d, el) ==
    LET section == closest(d, el, Sel(Any, "section", Any))
    IN  IF section = NoEl \/ NodeAt(d, section).attr.section = EmptyStr THEN NoAttr
        ELSE NodeAt(d, section).attr.section

RECURSIVE repeat(_, _)
\* what n identical listeners post when the event fires once
repeat(n, events) == IF n = 0 THEN <<>> ELSE events \o repeat(n - 1, events)

----------------------------------------------------------------------------
(* The rendered pages the channel runs against. *)

Attrs(section, field, list, item, style) ==
    [section |-> section, field |-> field, list |-> list, item |-> item,
     style |-> style]

FieldEl(tag, field, text, src, href, style) ==
    El(tag, Attrs(NoAttr, field, NoAttr, NoAttr, NoAttr), text, src, href, style, <<>>)

Hidden == [display |-> S("none")]

\* <section data-dr-section="hero">: a heading that was rendered empty and is
\* hidden, an image and a link whose field path names its target
HeroSection ==
    El("section", Attrs(S("hero"), NoAttr, NoAttr, NoAttr, NoAttr),
       EmptyStr, EmptyStr, EmptyStr, NoStyle,
       << El("h1", Attrs(NoAttr, S("title"), NoAttr, NoAttr, S("title")),
             EmptyStr, EmptyStr, EmptyStr, Hidden, <<>>),
          FieldEl("img", S("image"), EmptyStr, S("hero.jpg"), EmptyStr, NoStyle),
          FieldEl("a", <<"cta", ".", "href">>, S("Start"), EmptyStr, S("/start"),
                  NoStyle) >>)

\* <li data-dr-list-item>: an image, a caption and a link
GalleryItem(src, caption, label, href) ==
    El("li", Attrs(NoAttr, NoAttr, NoAttr, EmptyStr, NoAttr),
       EmptyStr, EmptyStr, EmptyStr, NoStyle,
       << FieldEl("img", S("src"), EmptyStr, src, EmptyStr, NoStyle),
          FieldEl("span", S("caption"), caption, EmptyStr, EmptyStr, NoStyle),
          FieldEl("a", S("label"), label, EmptyStr, href, NoStyle) >>)

\* <section data-dr-section="gallery"><ul data-dr-list="gallery">...
GallerySection(items) ==
    El("section", Attrs(S("gallery"), NoAttr, NoAttr, NoAttr, NoAttr),
       EmptyStr, EmptyStr, EmptyStr, NoStyle,
       << El("ul", Attrs(NoAttr, NoAttr, S("gallery"), NoAttr, NoAttr),
             EmptyStr, EmptyStr, EmptyStr, NoStyle, items) >>)

Body(sections) == El("body", NoAttrs, EmptyStr, EmptyStr, EmptyStr, NoStyle, sections)

HeroPage == Body(<<HeroSection>>)

\* every element of the document, the body included
Elements(d) == {<<>>} \cup {Below(d)[i] : i \in 1..Len(Below(d))}

----------------------------------------------------------------------------
(* The history of field writes: which value each update addressed to which  *)
(* (section, field path), in the order the handlers take them.              *)

RECURSIVE Flat(_)
Flat(ss) == IF ss = <<>> THEN <<>> ELSE Head(ss) \o Flat(Tail(ss))

Write(s, f, v) == [s |-> s, f |-> f, v |-> v]

\* handleFieldUpdate: an array goes to the list reconciler, anything else to
\* the field node
fieldUpdateWrites(sectionId, field, value) ==
    IF isArray(value) THEN <<>>
    ELSE <<Write(JsString(sectionId), JsString(field), value)>>

\* the dot-notation writes of a nested object
nestedWrites(s, field, es) ==
    [i \in 1..Len(es) |-> Write(s, field \o S(".") \o es[i].k, es[i].v)]

\* the dot-index writes of handleFullUpdate for the items of an array
arrayWrites(s, field, a) ==
    Flat([i \in 1..Len(a) |->
            IF Truthy(a[i]) /\ typeofObject(a[i])
            THEN nestedWrites(s, field \o S(".") \o NumStr(i - 1), entries(a[i]))
            ELSE <<Write(s, field \o S(".") \o NumStr(i - 1), a[i])>>])

\* handleFullUpdate for one (field, value) of a section's data
fullUpdateWrites(s, field, value) ==
    IF endsWith(field, S("__style")) /\ typeofObject(value) /\ ~Nullish(value)
       /\ ~isArray(value)
    THEN <<>>
    ELSE IF typeofObject(value) /\ ~isArray(value) /\ ~Nullish(value)
    THEN nestedWrites(s, field, entries(value))
    ELSE IF isArray(value) THEN arrayWrites(s, field, value.a)
    ELSE <<Write(s, field, value)>>

sectionWrites(s, es) == Flat([i \in 1..Len(es) |-> fullUpdateWrites(s, es[i].k, es[i].v)])

dataWrites(ds) ==
    Flat([i \in 1..Len(ds) |->
            IF ds[i].k = S("theme") THEN <<>>
            ELSE sectionWrites(ds[i].k, entries(ds[i].v))])

\* the field writes handleMessage routes an admitted message to
messageWrites(msg) ==
    IF ~Truthy(msg) THEN <<>>
    ELSE IF Prop(msg, S("type")) = Str(S("field-update"))
    THEN fieldUpdateWrites(Prop(msg, S("sectionId")), Prop(msg, S("field")),
                           Prop(msg, S("value")))
    ELSE IF Prop(msg, S("type")) = Str(S("full-update"))
    THEN dataWrites(entries(Prop(msg, S("data"))))
    ELSE <<>>

\* applyManifest for one (field, value) of a section's resolved data
inj_fieldWrites(s, field, value) ==
    IF endsWith(field, S("__style")) THEN <<>>
    ELSE IF typeofObject(value) /\ ~isArray(value) /\ ~Nullish(value)
    THEN nestedWrites(s, field, entries(value))
    ELSE IF isArray(value) THEN <<>>
    ELSE <<Write(s, field, value)>>

inj_sectionWrites(section, resolved) ==
    IF Prop(section, S("id")) = Str(S("theme"))
       \/ Prop(section, S("enabled")) = Bool(FALSE)
       \/ ~Truthy(Prop(section, S("data")))
    THEN <<>>
    ELSE Flat([i \in 1..Len(resolved.data) |->
                 inj_fieldWrites(JsString(Prop(section, S("id"))),
                                 resolved.data[i].k, resolved.data[i].v)])

\* the field writes applyManifest makes for a manifest it applies without error
manifestWrites(manifest) ==
    Flat([i \in 1..Len(Prop(manifest, S("sections")).a) |->
            inj_sectionWrites(Prop(manifest, S("sections")).a[i],
                resolveCollectionRefs(Prop(manifest, S("sections")).a[i],
                                      collectionIndex(manifest).map))])

\* the field node an address resolves to in d, or NoEl
fieldNodeIn(d, sectionEl, f) ==
    IF sectionEl = NoEl THEN NoEl ELSE querySelector(d, sectionEl, Sel(Any, "field", f))

fieldNode(d, s, f) == fieldNodeIn(d, querySelector(d, <<>>, Sel(Any, "section", s)), f)

\* ap with key mapped to v
remember(ap, key, v) ==
    [x \in DOMAIN ap \cup {key} |-> IF x = key THEN v ELSE ap[x]]

RECURSIVE record(_, _, _, _)
\* the history after the writes ws: a null or undefined value, or an address
\* that resolves to no node of d, writes nothing
record(ap, d, ws, i) ==
    IF i > Len(ws) THEN ap
    ELSE record(IF Nullish(ws[i].v) \/ fieldNode(d, ws[i].s, ws[i].f) = NoEl THEN ap
                ELSE remember(ap, <<ws[i].s, ws[i].f>>, ws[i].v),
                d, ws, i + 1)

----------------------------------------------------------------------------
(* Module load and the events the page handles. *)

\* URLSearchParams.get('manifest') when the parameter is absent
NoUrl == <<>>

\* where initManifestInjector(url) stands when it first yields
started(url) ==
    IF url = NoUrl THEN "off" ELSE IF urlAllowed(url) THEN "pending" ELSE "blocked"

\* module load: initPreviewRuntime() runs iff isPreview, initManifestInjector(url)
\* iff the manifest parameter is present
Loaded(page, preview, emb, url) ==
    /\ isPreview = preview
    /\ embedded = emb
    /\ parentOrigin = Unlatched
    /\ highlightedEl = NoEl
    /\ dom = IF preview THEN setupImageClickHandlers(setupInlineEditing(page)) ELSE page
    /\ rootStyle = NoStyle
    /\ focused = NoEl
    /\ posted = IF preview THEN sendToParent(emb, Unlatched, [type |-> "ready"]) ELSE <<>>
    /\ threw = FALSE
    /\ hydration = started(url)
    /\ fetched = IF started(url) = "pending" THEN <<url>> ELSE <<>>
    /\ applied = <<>>

\* every listener set a node can still take (handleFullUpdate adds one per call)
BindRoom(d) == \A p \in Elements(d) : NodeAt(d, p).edit < MaxBind

isFullUpdate(data) == Truthy(data) /\ Prop(data, S("type")) = T("full-update")

\* the state after handleMessage returned r
Handled(r, writes) ==
    /\ dom' = r.w.dom
    /\ highlightedEl' = r.w.hl
    /\ rootStyle' = r.w.root
    /\ parentOrigin' = r.po
    /\ threw' = r.w.err
    /\ applied' = IF r.w.err THEN applied ELSE record(applied, r.w.dom, writes, 1)

\* what handleMessage returns in the current state for data from origin
received(origin, data) ==
    handleMessage(World(dom, highlightedEl, rootStyle), parentOrigin, origin, data)

\* what applyManifest leaves in the current state for the manifest body
hydrated(body) == applyManifest(World(dom, highlightedEl, rootStyle), body)

\* a listener that is registered on every page load
Deliver_listening(origin, data) ==
    /\ isFullUpdate(data) => BindRoom(dom)
    /\ Handled(received(origin, data),
               IF originAdmitted(origin) THEN messageWrites(data) ELSE <<>>)
    /\ posted' = <<>>
    /\ UNCHANGED <<isPreview, embedded, focused, hydration, fetched>>

\* a 'message' event reaches the window; the listener exists iff isPreview
Deliver(origin, data) ==
    /\ isFullUpdate(data) => BindRoom(dom)
    /\ IF isPreview
       THEN Handled(received(origin, data),
                    IF originAdmitted(origin) THEN messageWrites(data) ELSE <<>>)
       ELSE UNCHANGED <<dom, highlightedEl, rootStyle, parentOrigin, threw, applied>>
    /\ posted' = <<>>
    /\ UNCHANGED <<isPreview, embedded, focused, hydration, fetched>>

\* the state after initManifestInjector resumed and finished as outcome with
\* the page as in w (an error inside applyManifest is caught and logged)
Hydrated(w, outcome, writes) ==
    /\ dom' = w.dom
    /\ rootStyle' = w.root
    /\ hydration' = IF w.err THEN "error" ELSE outcome
    /\ applied' = IF w.err \/ outcome # "applied" THEN applied
                  ELSE record(applied, w.dom, writes, 1)

\* a test of the body alone
responseAccepted_anyStatus(ok, body) ==
    Truthy(body) /\ isArray(Prop(body, S("sections")))

\* response.ok, and the shape test of the parsed body
responseAccepted(ok, body) ==
    ok /\ Truthy(body) /\ isArray(Prop(body, S("sections")))

\* the fetch of the manifest resolves with a response whose json() is body
FetchResolves(ok, body) ==
    /\ hydration = "pending"
    /\ IF responseAccepted(ok, body)
       THEN Hydrated(hydrated(body), "applied", manifestWrites(body))
       ELSE Hydrated(World(dom, highlightedEl, rootStyle), "rejected", <<>>)
    /\ posted' = <<>>
    /\ threw' = FALSE
    /\ UNCHANGED <<isPreview, embedded, parentOrigin, highlightedEl, focused, fetched>>

\* the fetch rejects, or the response body is not JSON: the catch logs it
FetchFails ==
    /\ hydration = "pending"
    /\ hydration' = "error"
    /\ posted' = <<>>
    /\ threw' = FALSE
    /\ UNCHANGED <<isPreview, embedded, parentOrigin, highlightedEl, dom, rootStyle,
                   focused, fetched, applied>>

\* what a listener of el posts, given (sectionId && field)
whenAddressed(d, el, events) ==
    IF getSectionId(d, el) # NoAttr /\ NodeAt(d, el).attr.field \notin {NoAttr, EmptyStr}
    THEN events ELSE <<>>

\* what the focus listeners of el post
focusPosts(d, el) ==
    repeat(NodeAt(d, el).edit, whenAddressed(d, el,
        sendToParent(embedded, parentOrigin,
           [type |-> "element-selected", sectionId |-> getSectionId(d, el),
            field |-> NodeAt(d, el).attr.field, elementType |-> "text",
            content |-> NodeAt(d, el).text])))

\* the user focuses an editable element: its focus listeners run
Focus(el) ==
    /\ focused = NoEl
    /\ NodeAt(dom, el).ce
    /\ focused' = el
    /\ dom' = IF NodeAt(dom, el).edit = 0 THEN dom
              ELSE PutAt(dom, el, [NodeAt(dom, el) EXCEPT !.style =
                      setStyle(setStyle(setStyle(@,
                          "outline", S("2px solid rgba(139, 92, 246, 0.5)")),
                          "outlineOffset", S("2px")), "borderRadius", S("2px"))])
    /\ posted' = focusPosts(dom, el)
    /\ threw' = FALSE
    /\ UNCHANGED <<isPreview, embedded, parentOrigin, highlightedEl, rootStyle,
                   hydration, fetched, applied>>

fieldEdited(d, el) ==
    whenAddressed(d, el,
        sendToParent(embedded, parentOrigin,
           [type |-> "field-edited", sectionId |-> getSectionId(d, el),
            field |-> NodeAt(d, el).attr.field, value |-> NodeAt(d, el).text]))

\* what the blur listeners, or the input listeners, of el post
editPosts(d, el) == repeat(NodeAt(d, el).edit, fieldEdited(d, el))

\* the focused element loses focus: its blur listeners run
Blur ==
    /\ focused # NoEl
    /\ focused' = NoEl
    /\ dom' = IF NodeAt(dom, focused).edit = 0 THEN dom
              ELSE PutAt(dom, focused, [NodeAt(dom, focused) EXCEPT !.style =
                      setStyle(setStyle(setStyle(@, "outline", S("none")),
                          "outlineOffset", EmptyStr), "borderRadius", EmptyStr)])
    /\ posted' = editPosts(dom, focused)
    /\ threw' = FALSE
    /\ UNCHANGED <<isPreview, embedded, parentOrigin, highlightedEl, rootStyle,
                   hydration, fetched, applied>>

TypedTexts == {S("typed")}

\* the user types into the focused element: the browser changes its text, then
\* its input listeners run
Input(text) ==
    /\ focused # NoEl
    /\ NodeAt(dom, focused).ce
    /\ LET typed == PutAt(dom, focused, setText(NodeAt(dom, focused), text))
       IN  /\ dom' = typed
           /\ posted' = editPosts(typed, focused)
    /\ threw' = FALSE
    /\ UNCHANGED <<isPreview, embedded, parentOrigin, highlightedEl, rootStyle, focused,
                   hydration, fetched, applied>>

\* what a click on el posts.  An image's own click listeners stop the event;
\* otherwise it bubbles to the document's deselect listener.
clickPosts(d, el) ==
    IF NodeAt(d, el).click > 0
    THEN repeat(NodeAt(d, el).click, whenAddressed(d, el,
            sendToParent(embedded, parentOrigin,
               [type |-> "element-selected", sectionId |-> getSectionId(d, el),
                field |-> NodeAt(d, el).attr.field, elementType |-> "image",
                content |-> NodeAt(d, el).src])
            \o sendToParent(embedded, parentOrigin,
               [type |-> "image-replace-requested",
                sectionId |-> getSectionId(d, el),
                field |-> NodeAt(d, el).attr.field])))
    ELSE IF closest(d, el, Sel(Any, "field", Any)) = NoEl
    THEN sendToParent(embedded, parentOrigin, [type |-> "deselect"])
    ELSE <<>>

\* the user clicks an element outside any link
Click(el) ==
    /\ isPreview
    /\ closest(dom, el, TagSel("a")) = NoEl
    /\ posted' = clickPosts(dom, el)
    /\ threw' = FALSE
    /\ UNCHANGED <<isPreview, embedded, parentOrigin, highlightedEl, dom, rootStyle,
                   focused, hydration, fetched, applied>>

UserEvent ==
    \/ \E el \in Elements(dom) : Focus(el)
    \/ Blur
    \/ \E text \in TypedTexts : Input(text)
    \/ \E el \in Elements(dom) : Click(el)

----------------------------------------------------------------------------
(* The messages a controlling editor sends. *)

Msg(type, props) == Obj(<<KV(S("type"), T(type))>> \o props)

FieldUpdate(sectionId, field, value) ==
    Msg("field-update", <<KV(S("sectionId"), Str(sectionId)), KV(S("field"), Str(field)),
                          KV(S("value"), value)>>)

SectionToggle(sectionId, enabled) ==
    Msg("section-toggle", <<KV(S("sectionId"), Str(sectionId)),
                            KV(S("enabled"), Bool(enabled))>>)

StyleUpdate(sectionId, field, styles) ==
    Msg("style-update", <<KV(S("sectionId"), Str(sectionId)), KV(S("field"), Str(field)),
                          KV(S("styles"), styles)>>)

FullUpdate(data, sections) ==
    Msg("full-update", <<KV(S("data"), data), KV(S("sections"), sections)>>)

----------------------------------------------------------------------------
(* The channel under messages from every kind of origin, with a user at the  *)
(* page.                                                                     *)

ChannelOrigins ==
    { PageOrigin,
      <<"http://", "localhost", ":3000">>,
      <<"http://", "localhost", ".evil.com">>,
      <<"https://", "admin.example">>,
      <<"http://", "preview", ".pages.dev">>,
      <<"http://", "evil.com">>,
      S("null") }

ChannelMsgs ==
    { Null,
      Obj(<<KV(S("sectionId"), T("hero"))>>),
      Msg("reload", <<>>),
      SectionToggle(S("hero"), FALSE),
      FieldUpdate(S("hero"), S("title"), T("A")) }

InitChannel == \E preview \in BOOLEAN, emb \in BOOLEAN : Loaded(HeroPage, preview, emb, NoUrl)

NextChannel ==
    \/ \E origin \in ChannelOrigins, data \in ChannelMsgs : Deliver(origin, data)
    \/ UserEvent

SpecChannel == InitChannel /\ [][NextChannel]_vars

----------------------------------------------------------------------------
(* Message admission and the parent origin (SpecChannel). *)

PortLexemes == {":3000", ":8080"}

\* the host of an origin: what lies between the scheme and the port
hostOf(origin) == SelectSeq(Tail(origin), LAMBDA x : x \notin PortLexemes)

\* the origins the admission rule names: the page's own, a loopback host,
\* the deployment-platform suffix, the secure scheme
NamedOrigin(origin) ==
    \/ origin = PageOrigin
    \/ /\ Len(origin) >= 2
       /\ origin[1] \in {"http://", "https://"}
       /\ hostOf(origin) \in {S("localhost"), S("127.0.0.1")}
    \/ endsWith(origin, S(".pages.dev"))
    \/ startsWith(origin, S("https://"))

\* C1: a message whose origin is none of the page's own origin, a loopback
\* origin (host localhost or 127.0.0.1), an origin ending in .pages.dev or an
\* https origin is dropped entirely: handling it changes neither the document,
\* the root's custom properties nor the highlight, and Parent Origin stays as
\* it was.
C1_DroppedUnlessNamedOrigin ==
    isPreview =>
        \A origin \in ChannelOrigins, data \in ChannelMsgs :
            ~NamedOrigin(origin)
                => received(origin, data)
                      = [w |-> World(dom, highlightedEl, rootStyle), po |-> parentOrigin]

\* C2: Parent Origin starts as '*', a message that passes the origin test
\* while it is '*' sets it to that message's origin, and once set no step
\* changes it.
C2_LatchedOnce ==
    /\ parentOrigin = Unlatched
    /\ [](parentOrigin = Unlatched =>
            \A origin \in ChannelOrigins, data \in ChannelMsgs :
                originAdmitted(origin) => received(origin, data).po = origin)
    /\ [][parentOrigin # Unlatched => parentOrigin' = parentOrigin]_vars

C2_Witness ==
    /\ isPreview
    /\ parentOrigin = <<"https://", "admin.example">>
    /\ NodeAt(dom, <<1, 1>>).text = S("A")

\* C3: once Parent Origin is latched, every event the page posts goes to the
\* latched origin and none to '*'.
C3_PostedToLatchedOrigin ==
    parentOrigin # Unlatched =>
        \A i \in 1..Len(posted) :
            posted[i].target = parentOrigin /\ posted[i].target # Unlatched

C3_Witness ==
    /\ parentOrigin # Unlatched
    /\ Len(posted) = 2
    /\ posted[1].msg.type = "element-selected"
    /\ posted[2].msg.type = "image-replace-requested"

----------------------------------------------------------------------------
(* Field writes through both transports: the channel under field-update and  *)
(* full-update messages while the manifest fetch is in flight.               *)

ManifestUrl == <<"https://", "api.example", "/manifest.json">>

FieldValues ==
    { T("A"), Num(7), Null, Undef, Obj(<<KV(S("k"), T("A"))>>), Arr(<<T("A")>>) }

FieldPaths == { S("title"), S("image"), <<"cta", ".", "href">>, S("absent") }

NoSections == Obj(<<>>)

FullUpdates ==
    { FullUpdate(Obj(<<KV(S("hero"), Obj(<<KV(S("title"), T("B")),
                                           KV(S("image"), Null)>>))>>), NoSections),
      FullUpdate(Obj(<<KV(S("hero"),
                       Obj(<<KV(S("title"), T("C")),
                             KV(S("cta"), Obj(<<KV(S("href"), T("/c"))>>))>>))>>),
                 NoSections) }

FieldMsgs ==
    { FieldUpdate(S("hero"), f, v) : f \in FieldPaths, v \in FieldValues }
    \cup { FieldUpdate(S("nope"), S("title"), T("A")) }
    \cup FullUpdates

Manifest(sections) == Obj(<<KV(S("sections"), Arr(sections))>>)

Section(id, data) == Obj(<<KV(S("id"), T(id)), KV(S("data"), data)>>)

FieldManifests ==
    { Manifest(<<Section("hero",
                   Obj(<<KV(S("title"), Null), KV(S("image"), T("m.jpg")),
                         KV(S("cta"), Obj(<<KV(S("href"), Null)>>))>>))>>),
      Manifest(<<Section("hero",
                   Obj(<<KV(S("title"), T("M")), KV(S("image"), Null)>>))>>) }

InitField == Loaded(HeroPage, TRUE, TRUE, ManifestUrl)

NextField ==
    \/ \E data \in FieldMsgs : Deliver(PageOrigin, data)
    \/ \E body \in FieldManifests : FetchResolves(TRUE, body)
    \/ FetchFails

SpecField == InitField /\ [][NextField]_vars

----------------------------------------------------------------------------
(* Field writes (SpecField). *)

\* what a field node displays: the source of an image, the target of a link
\* whose field path names a link target, the text of anything else
shown(n, f) ==
    IF n.tag = "img" THEN n.src
    ELSE IF n.tag = "a" /\ includes(f, S("href")) THEN n.href
    ELSE n.text

heroField(d, f) == NodeAt(d, fieldNode(d, S("hero"), f))

\* content and visibility of the hero field f are the same in d and e
kept(d, e, f) ==
    /\ heroField(e, f).text = heroField(d, f).text
    /\ heroField(e, f).src = heroField(d, f).src
    /\ heroField(e, f).href = heroField(d, f).href
    /\ getStyle(heroField(e, f).style, "display") = getStyle(heroField(d, f).style, "display")

\* the writes ws address (s, f), and only with null or undefined
nullOnly(ws, s, f) ==
    /\ \E i \in 1..Len(ws) : ws[i].s = s /\ ws[i].f = f
    /\ \A i \in 1..Len(ws) : (ws[i].s = s /\ ws[i].f = f) => Nullish(ws[i].v)

\* the document after the page handled data sent from its own origin
after(data) == received(PageOrigin, data).w.dom

\* C4: after an accepted field-update with a non-null, non-array value whose
\* section and field node exist, the node displays String(value) (as text, as
\* image source, or as link target by its role) and its display is no longer
\* overridden.
C4_FieldShowsStringOfValue ==
    \A f \in FieldPaths, v \in FieldValues :
        ( /\ isPreview
          /\ ~Nullish(v) /\ ~isArray(v)
          /\ fieldNode(dom, S("hero"), f) # NoEl )
        => /\ shown(heroField(after(FieldUpdate(S("hero"), f, v)), f), f) = JsString(v)
           /\ getStyle(heroField(after(FieldUpdate(S("hero"), f, v)), f).style, "display")
                 = EmptyStr

C4_Witness ==
    /\ NodeAt(dom, <<1, 1>>).text = S("7")
    /\ getStyle(NodeAt(dom, <<1, 1>>).style, "display") = EmptyStr
    /\ NodeAt(dom, <<1, 2>>).src = S("[object Object]")
    /\ NodeAt(dom, <<1, 3>>).href = S("A")
    /\ NodeAt(dom, <<1, 3>>).text = S("Start")

\* C5: a null or undefined value applied to a field node, by a field-update,
\* inside a full-update or by the hydrated manifest, leaves the node's
\* content and its display state as they were.
C5_NullLeavesNodeUnchanged ==
    /\ \A f \in FieldPaths, v \in {Null, Undef} :
          (isPreview /\ fieldNode(dom, S("hero"), f) # NoEl)
          => kept(dom, after(FieldUpdate(S("hero"), f, v)), f)
    /\ \A data \in FullUpdates, f \in FieldPaths :
          ( /\ isPreview
            /\ nullOnly(messageWrites(data), S("hero"), f)
            /\ fieldNode(dom, S("hero"), f) # NoEl )
          => kept(dom, after(data), f)
    /\ \A body \in FieldManifests, f \in FieldPaths :
          ( /\ hydration = "pending"
            /\ nullOnly(manifestWrites(body), S("hero"), f)
            /\ fieldNode(dom, S("hero"), f) # NoEl )
          => kept(dom, hydrated(body).dom, f)

C5_Witness ==
    /\ hydration = "applied"
    /\ NodeAt(dom, <<1, 2>>).src = S("hero.jpg")
    /\ NodeAt(dom, <<1, 1>>).text = S("B")
    /\ NodeAt(dom, <<1, 1>>).edit = 2
    /\ NodeAt(dom, <<1, 3>>).href = S("/start")

\* C6 as stated: a field-update with any non-null value for a field that an
\* earlier update has set makes the node display that value.
C6_FieldUpdateWins ==
    \A f \in FieldPaths, v \in FieldValues :
        ( /\ isPreview
          /\ ~Nullish(v)
          /\ <<S("hero"), f>> \in DOMAIN applied
          /\ fieldNode(dom, S("hero"), f) # NoEl )
        => shown(heroField(after(FieldUpdate(S("hero"), f, v)), f), f) = JsString(v)

\* C6: updates apply in arrival order and the last one wins: every field node
\* displays the string form of the value of the last update that addressed it
\* with a value that is neither null, undefined nor an array (an array goes
\* to the list reconciler and to the dot-index fields, not to the node).
C6_LastAppliedWins ==
    \A key \in DOMAIN applied :
        fieldNode(dom, key[1], key[2]) # NoEl
            => shown(NodeAt(dom, fieldNode(dom, key[1], key[2])), key[2])
                   = JsString(applied[key])

C6_Witness ==
    /\ NodeAt(dom, <<1, 1>>).edit >= 2
    /\ NodeAt(dom, <<1, 1>>).text = S("7")
    /\ applied[<<S("hero"), S("title")>>] = Num(7)

----------------------------------------------------------------------------
(* List reconciliation: a gallery section under array updates of up to       *)
(* MaxItems records, with the manifest fetch in flight.                      *)

Record(src, caption) == <<KV(S("src"), T(src)), KV(S("caption"), T(caption))>>

\* records with different key sets; only the first names a link target
ItemPool ==
    { Obj(Record("a.jpg", "A") \o <<KV(S("label"), T("One")), KV(S("href"), T("/one"))>>),
      Obj(Record("b.jpg", "B")),
      Obj(<<KV(S("caption"), T("C")), KV(S("label"), T("Three"))>>) }

\* the items arrays of n records
Items(n) == [1..n -> ItemPool]

ArrayUpdate(field, items) == FieldUpdate(S("gallery"), field, Arr(items))

\* a field that names no list of the section: the section-id fallback finds
\* the gallery
Unlisted == S("photos")

Rendered == GalleryItem(S("t.jpg"), S("T"), S("More"), S("/t"))

Earlier == GalleryItem(S("u.jpg"), S("U"), S("Less"), S("/u"))

\* the gallery as rendered with one item, with three, and with two that differ
ListPages ==
    { Body(<<GallerySection(<<Rendered>>)>>),
      Body(<<GallerySection(<<Rendered, Rendered, Rendered>>)>>),
      Body(<<GallerySection(<<Earlier, Rendered>>)>>) }

GalleryManifest(items) ==
    Manifest(<<Section("gallery", Obj(<<KV(S("gallery"), Arr(items))>>))>>)

InitList == \E page \in ListPages : Loaded(page, TRUE, TRUE, ManifestUrl)

\* array updates of up to MaxItems records for the list the field names, of
\* at most one record through the fallback, and a manifest of one record
NextList ==
    \/ \E n \in 0..MaxItems : \E items \in Items(n) :
          Deliver(PageOrigin, ArrayUpdate(S("gallery"), items))
    \/ \E n \in 0..1 : \E items \in Items(n) :
          Deliver(PageOrigin, ArrayUpdate(Unlisted, items))
    \/ \E items \in Items(1) : FetchResolves(TRUE, GalleryManifest(items))

SpecList == InitList /\ [][NextList]_vars

----------------------------------------------------------------------------
(* List reconciliation (SpecList). *)

\* the gallery's list container and its item nodes
listAt(d) == NodeAt(d, <<1, 1>>)

itemNodes(d) == SelectSeq(listAt(d).kids, LAMBDA k : k.attr.item # NoAttr)

\* the document after handleFieldUpdate ran on d for an array update
afterArrayUpdate(d, field, items) ==
    handleFieldUpdate(World(d, NoEl, NoStyle), T("gallery"), Str(field), Arr(items)).dom

\* what the field node named key shows inside a list item: an image its
\* source, anything else its text
carried(it, el) == IF NodeAt(it, el).tag = "img" THEN NodeAt(it, el).src
                   ELSE NodeAt(it, el).text

\* the item node it carries the field values of the record itemData
carries(it, itemData) ==
    \A i \in 1..Len(itemData.e) :
        querySelector(it, <<>>, Sel(Any, "field", itemData.e[i].k)) # NoEl
            => carried(it, querySelector(it, <<>>, Sel(Any, "field", itemData.e[i].k)))
                  = JsString(itemData.e[i].v)

\* the list container after the injector's updateArrayField ran on it
inj_afterArrayUpdate(d, items) ==
    inj_updateArrayField(World(d, NoEl, NoStyle), <<1>>, S("gallery"), items).dom

\* C7 as stated: for a list that holds a template item, applying the same
\* items twice leaves the same item nodes, in number and content, as applying
\* them once, in the channel's reconciler and in the injector's.
C7_ReconcileIdempotent ==
    \A n \in 0..MaxItems : \A items \in Items(n) :
        itemNodes(dom) # <<>>
        => /\ itemNodes(afterArrayUpdate(afterArrayUpdate(dom, S("gallery"), items),
                                         S("gallery"), items))
                 = itemNodes(afterArrayUpdate(dom, S("gallery"), items))
           /\ itemNodes(inj_afterArrayUpdate(inj_afterArrayUpdate(dom, items), items))
                 = itemNodes(inj_afterArrayUpdate(dom, items))

\* C8 as stated: a list that a reconciliation with items = [] has emptied
\* takes a later reconciliation with n > 0 items and then holds exactly n
\* item nodes.
C8_RefillAfterEmpty ==
    \A n \in 1..MaxItems : \A items \in Items(n) :
        itemNodes(dom) = <<>>
            => Len(itemNodes(afterArrayUpdate(dom, S("gallery"), items))) = n

\* the item nodes are exactly the records of items, in their order
exactly(nodes, items) ==
    /\ Len(nodes) = Len(items)
    /\ \A i \in 1..Len(items) : carries(nodes[i], items[i])

\* C9: an array field-update with n items against a list that holds at least
\* one item node leaves exactly n item nodes, the i-th carrying the field
\* values of the i-th record, whatever the list held before.
C9_ExactlyTheItemsInOrder ==
    itemNodes(dom) # <<>>
    => /\ \A n \in 0..MaxItems : \A items \in Items(n) :
             exactly(itemNodes(afterArrayUpdate(dom, S("gallery"), items)), items)
       /\ \A n \in 0..1 : \A items \in Items(n) :
             exactly(itemNodes(afterArrayUpdate(dom, Unlisted, items)), items)

C9_Witness ==
    /\ Len(itemNodes(dom)) = 2
    /\ itemNodes(dom)[1].kids[1].src = S("a.jpg")
    /\ itemNodes(dom)[2].kids[1].src = S("b.jpg")
    /\ itemNodes(dom)[2].kids[2].text = S("B")

----------------------------------------------------------------------------
(* Style updates: the hero section under style maps that mix listed and     *)
(* unlisted properties.                                                      *)

StyleMaps ==
    { Obj(<<KV(S("color"), T("red"))>>),
      Obj(<<KV(S("color"), T("blue")), KV(S("position"), T("fixed"))>>),
      Obj(<<KV(S("display"), T("block")), KV(S("fontWeight"), Num(7))>>),
      Obj(<<KV(S("cursor"), T("wait")), KV(S("zIndex"), Num(9))>>),
      Obj(<<KV(S("textAlign"), T("center")), KV(S("color"), Str(EmptyStr))>>) }

StyleFields == { S("title"), S("__section"), S("absent") }

StyleMsgs ==
    { StyleUpdate(S("hero"), field, styles) : field \in StyleFields, styles \in StyleMaps }
    \cup { StyleUpdate(S("nope"), S("title"), Obj(<<KV(S("color"), T("red"))>>)) }

\* a full-update whose hero data carries a <field>__style entry
StyleFullUpdate(field, styles) ==
    FullUpdate(Obj(<<KV(S("hero"), Obj(<<KV(field \o S("__style"), styles)>>))>>),
               NoSections)

StyleFullUpdates == { StyleFullUpdate(S("title"), styles) : styles \in StyleMaps }

InitStyle == Loaded(HeroPage, TRUE, TRUE, NoUrl)

NextStyle == \E data \in StyleMsgs \cup StyleFullUpdates : Deliver(PageOrigin, data)

SpecStyle == InitStyle /\ [][NextStyle]_vars

----------------------------------------------------------------------------
(* Style updates (SpecStyle). *)

\* the node a style update for the hero field resolves to
heroStyleTarget(d, field) ==
    styleTarget(d, querySelector(d, <<>>, Sel(Any, "section", S("hero"))), Str(field))

\* the page after it handled data sent from its own origin
styleSent(data) == received(PageOrigin, data).w

\* every listed property of styles is set on the node at el and every
\* unlisted one is as it was
styled(d, e, el, styles) ==
    \A i \in 1..Len(styles.e) :
        IF styles.e[i].k[1] \in _allowedStyleProps
        THEN getStyle(NodeAt(e, el).style, styles.e[i].k[1]) = JsString(styles.e[i].v)
        ELSE getStyle(NodeAt(e, el).style, styles.e[i].k[1])
                = getStyle(NodeAt(d, el).style, styles.e[i].k[1])

\* C10: a style-update, or a __style entry of a full-update, sets every
\* property of its map that is on the allow list on the resolved node, leaves
\* every property that is not on it as it was, and raises no error, also when
\* both kinds arrive in one map.
C10_OnlyAllowedStylesApplied ==
    /\ \A field \in StyleFields, styles \in StyleMaps :
          (isPreview /\ heroStyleTarget(dom, field) # NoEl)
          => /\ styled(dom, styleSent(StyleUpdate(S("hero"), field, styles)).dom,
                       heroStyleTarget(dom, field), styles)
             /\ ~styleSent(StyleUpdate(S("hero"), field, styles)).err
    /\ \A styles \in StyleMaps :
          isPreview
          => /\ styled(dom, styleSent(StyleFullUpdate(S("title"), styles)).dom,
                       heroStyleTarget(dom, S("title")), styles)
             /\ ~styleSent(StyleFullUpdate(S("title"), styles)).err

C10_Witness ==
    /\ getStyle(NodeAt(dom, <<1, 1>>).style, "color") = S("blue")
    /\ getStyle(NodeAt(dom, <<1, 1>>).style, "position") = EmptyStr
    /\ getStyle(NodeAt(dom, <<1, 1>>).style, "fontWeight") = S("7")
    /\ getStyle(NodeAt(dom, <<1, 1>>).style, "display") = S("none")
    /\ getStyle(NodeAt(dom, <<1>>).style, "textAlign") = S("center")
    /\ NodeAt(dom, <<1, 1>>).edit = 2

----------------------------------------------------------------------------
(* A page of two sections under every kind of message, with a user moving   *)
(* the focus: highlight, visibility, full updates.                           *)

SectionHighlight(sectionId) == Msg("section-highlight", <<KV(S("sectionId"), sectionId)>>)

ScrollTo(sectionId) == Msg("scroll-to-section", <<KV(S("sectionId"), Str(sectionId))>>)

Enabled(flag) == Obj(<<KV(S("enabled"), Bool(flag))>>)

\* <section data-dr-section="theme">: a swatch whose field path is the path of
\* a theme colour
ThemeSection ==
    El("section", Attrs(S("theme"), NoAttr, NoAttr, NoAttr, NoAttr),
       EmptyStr, EmptyStr, EmptyStr, NoStyle,
       << FieldEl("span", <<"colors", ".", "primary">>, S("swatch"), EmptyStr, EmptyStr,
                  NoStyle) >>)

\* <body> with the hero section, a gallery of one rendered item and the swatch
SectionsPage == Body(<<HeroSection, GallerySection(<<Rendered>>), ThemeSection>>)

HighlightMsgs ==
    { SectionHighlight(T("hero")), SectionHighlight(T("gallery")),
      SectionHighlight(T("nope")), SectionHighlight(Null) }

ToggleMsgs ==
    { SectionToggle(S("hero"), FALSE), SectionToggle(S("hero"), TRUE),
      SectionToggle(S("gallery"), FALSE) }

\* a style map that carries a listed property next to display and outline
SectionStyle ==
    Obj(<<KV(S("color"), T("red")), KV(S("display"), T("block")),
          KV(S("outline"), T("none"))>>)

\* messages of the kinds that are no enable flag
OtherMsgs ==
    { FieldUpdate(S("hero"), S("title"), T("A")),
      StyleUpdate(S("hero"), S("__section"), SectionStyle),
      ScrollTo(S("hero")) }

\* theme data, then a scalar, a null and a nested object for the hero
ThemedData ==
    Obj(<<KV(S("theme"), Obj(<<KV(S("colors"), Obj(<<KV(S("primary"), T("#111"))>>))>>)),
          KV(S("hero"), Obj(<<KV(S("title"), T("B")), KV(S("image"), Null),
                              KV(S("cta"), Obj(<<KV(S("href"), T("/c"))>>))>>))>>)

\* a section the page does not hold, a number and an image source
PlainData ==
    Obj(<<KV(S("nope"), Obj(<<KV(S("title"), T("Z"))>>)),
          KV(S("hero"), Obj(<<KV(S("title"), Num(7)), KV(S("image"), T("n.jpg"))>>)),
          KV(S("gallery"), Obj(<<>>))>>)

PageData == {ThemedData, PlainData}

PageFlags ==
    { Obj(<<KV(S("hero"), Enabled(FALSE)), KV(S("gallery"), Enabled(TRUE))>>),
      Obj(<<KV(S("hero"), Enabled(TRUE)), KV(S("nope"), Enabled(FALSE))>>),
      NoSections }

PageUpdates == { FullUpdate(data, sections) : data \in PageData, sections \in PageFlags }

\* the full-update the editor sends: the themed data, the hero disabled
PageUpdate ==
    FullUpdate(ThemedData,
               Obj(<<KV(S("hero"), Enabled(FALSE)), KV(S("gallery"), Enabled(TRUE))>>))

\* a full-update that disables the hero and carries no data map
DatalessUpdate ==
    Msg("full-update", <<KV(S("sections"), Obj(<<KV(S("hero"), Enabled(FALSE))>>))>>)

SectionMsgs ==
    HighlightMsgs \cup ToggleMsgs \cup OtherMsgs \cup {PageUpdate, DatalessUpdate}

InitSections == Loaded(SectionsPage, TRUE, TRUE, NoUrl)

NextSections ==
    \/ \E data \in SectionMsgs : Deliver(PageOrigin, data)
    \/ \E el \in Elements(dom) : Focus(el)
    \/ Blur

SpecSections == InitSections /\ [][NextSections]_vars

----------------------------------------------------------------------------
(* Highlight and visibility (SpecSections). *)

\* the section nodes of d
sectionNodes(d) == {p \in Elements(d) : NodeAt(d, p).attr.section # NoAttr}

\* the section nodes that carry the highlight outline
outlined(d) ==
    {p \in sectionNodes(d) : getStyle(NodeAt(d, p).style, "outline") = HighlightOutline}

\* which nodes are outlined and which one is recorded, in the world w
highlights(w) == [on |-> outlined(w.dom), hl |-> w.hl]

\* the first section node named id
sectionNamed(d, id) == querySelector(d, <<>>, sectionSel(id))

\* C11: at most one section node carries the highlight outline and it is the
\* recorded one; highlighting an existing section leaves exactly that section
\* outlined and recorded, whichever was highlighted before, and a highlight
\* with a null target leaves none.
C11_OneHighlight ==
    /\ outlined(dom) = IF highlightedEl = NoEl THEN {} ELSE {highlightedEl}
    /\ \A id \in {T("hero"), T("gallery")} :
          highlights(received(PageOrigin, SectionHighlight(id)).w)
              = [on |-> {sectionNamed(dom, id)}, hl |-> sectionNamed(dom, id)]
    /\ highlights(received(PageOrigin, SectionHighlight(Null)).w)
          = [on |-> {}, hl |-> NoEl]

C11_Witness ==
    /\ highlightedEl = <<2>>
    /\ getStyle(NodeAt(dom, <<1>>).style, "outline") = EmptyStr
    /\ getStyle(NodeAt(dom, <<1>>).style, "color") = S("red")
    /\ getStyle(NodeAt(dom, <<1>>).style, "display") = S("none")
    /\ focused = <<1, 1>>

\* the display override of the node at p
display(d, p) == getStyle(NodeAt(d, p).style, "display")

\* a full-update that carries nothing but the enable flag of one section
FlagUpdate(sectionId, flag) ==
    FullUpdate(Obj(<<>>), Obj(<<KV(sectionId, Enabled(flag))>>))

\* C12: an enable flag applied to a section, by section-toggle or by the
\* sections map of a full-update, leaves its display fully hidden when the flag
\* is false and normal when it is true, whatever it was before; and no
\* field-update, style-update, section-highlight or scroll-to-section message
\* changes the display of any section root.
C12_DisplayFollowsFlag ==
    /\ \A s \in {S("hero"), S("gallery")}, flag \in BOOLEAN :
          /\ display(after(SectionToggle(s, flag)), sectionNamed(dom, Str(s)))
                = IF flag THEN EmptyStr ELSE S("none")
          /\ display(after(FlagUpdate(s, flag)), sectionNamed(dom, Str(s)))
                = IF flag THEN EmptyStr ELSE S("none")
    /\ \A data \in OtherMsgs \cup HighlightMsgs, p \in sectionNodes(dom) :
          display(after(data), p) = display(dom, p)

C12_Witness ==
    /\ display(dom, <<1>>) = EmptyStr
    /\ display(dom, <<2>>) = S("none")
    /\ NodeAt(dom, <<1, 1>>).edit = 2
    /\ getStyle(NodeAt(dom, <<1>>).style, "color") = S("red")
    /\ highlightedEl = <<1>>

----------------------------------------------------------------------------
(* Full updates (SpecSections). *)

scalar(v) == v.t \in {"string", "number", "boolean"}

\* the node that (s, f) names in d shows the string form of v in e
fieldShows(e, d, s, f, v) ==
    fieldNode(d, s, f) # NoEl => shown(NodeAt(e, fieldNode(d, s, f)), f) = JsString(v)

\* every scalar of the field map fields, and every scalar one level down,
\* shows in e at the node it names in d
fieldsShown(e, d, s, fields) ==
    \A i \in 1..Len(fields) :
        /\ scalar(fields[i].v) => fieldShows(e, d, s, fields[i].k, fields[i].v)
        /\ fields[i].v.t = "object" =>
              \A j \in 1..Len(fields[i].v.e) :
                  scalar(fields[i].v.e[j].v)
                      => fieldShows(e, d, s, fields[i].k \o S(".") \o fields[i].v.e[j].k,
                                    fields[i].v.e[j].v)

\* every section of d that the sections map lists has its display from its flag
flagsShown(e, d, sections) ==
    \A i \in 1..Len(sections) :
        sectionNamed(d, Str(sections[i].k)) # NoEl
            => display(e, sectionNamed(d, Str(sections[i].k)))
                  = IF Truthy(Prop(sections[i].v, S("enabled"))) THEN EmptyStr
                    ELSE S("none")

\* every non-theme section of data shows its fields; the theme went to the
\* root's custom properties and the swatch of the theme section is as it was
dataShown(w, d, data) ==
    \A i \in 1..Len(data) :
        IF data[i].k = S("theme")
        THEN /\ getStyle(w.root, "--primary")
                   = JsString(Prop(Prop(data[i].v, S("colors")), S("primary")))
             /\ NodeAt(w.dom, <<3, 1>>).text = NodeAt(d, <<3, 1>>).text
        ELSE fieldsShown(w.dom, d, data[i].k, data[i].v.e)

\* the world after the page handled data sent from its own origin
handled(data) == received(PageOrigin, data).w

\* C13: after a full-update, every listed section the page holds has its
\* display from its enabled flag; every non-theme section of data the page
\* holds shows String(value) at the node of each non-null scalar field and at
\* the node field.k of each scalar one level down in a nested object (the
\* fields of one update addressing different nodes); theme data sets the
\* root's custom properties and writes no field node.
C13_FullUpdateApplied ==
    \A data \in PageData, sections \in PageFlags :
        /\ flagsShown(handled(FullUpdate(data, sections)).dom, dom, sections.e)
        /\ dataShown(handled(FullUpdate(data, sections)), dom, data.e)
        /\ ~handled(FullUpdate(data, sections)).err

C13_Witness ==
    /\ NodeAt(dom, <<1, 1>>).text = S("B")
    /\ NodeAt(dom, <<1, 2>>).src = S("hero.jpg")
    /\ NodeAt(dom, <<1, 3>>).href = S("/c")
    /\ display(dom, <<1>>) = S("none")
    /\ display(dom, <<2>>) = EmptyStr
    /\ getStyle(rootStyle, "--primary") = S("#111")
    /\ NodeAt(dom, <<3, 1>>).text = S("swatch")

----------------------------------------------------------------------------
(* Remote hydration: a page loaded with every kind of manifest reference,    *)
(* the fetch resolving with every kind of body, while the channel runs.      *)

\* <section data-dr-section="nav">: the brand rendered twice, for the desktop
\* and for the mobile layout
NavSection ==
    El("section", Attrs(S("nav"), NoAttr, NoAttr, NoAttr, NoAttr),
       EmptyStr, EmptyStr, EmptyStr, NoStyle,
       << FieldEl("span", S("brand"), S("Acme"), EmptyStr, EmptyStr, NoStyle),
          FieldEl("span", S("brand"), S("Acme"), EmptyStr, EmptyStr, NoStyle) >>)

HydrationPage == Body(<<HeroSection, GallerySection(<<Rendered>>), NavSection>>)

ManifestUrls ==
    { ManifestUrl,
      <<"http://", "localhost", ":3000", "/manifest.json">>,
      <<"http://", "127.0.0.1", "/manifest.json">>,
      <<"http://", "cdn.example", "/manifest.json">>,
      <<"ftp://", "cdn.example", "/manifest.json">>,
      <<"//", "cdn.example", "/manifest.json">>,
      <<"HTTPS://", "api.example", "/manifest.json">> }

\* a manifest whose hero data carries a style map for the title
StyledData ==
    Obj(<<KV(S("title"), T("S")),
          KV(<<"title", "__style">>, Obj(<<KV(S("color"), T("red"))>>))>>)

StyledManifest == Manifest(<<Section("hero", StyledData)>>)

\* a manifest of field maps; one that disables a section and fills the list;
\* one that holds no section; one whose list carries a null record; one with
\* a style map
BrandManifest ==
    Manifest(<<Section("nav", Obj(<<KV(S("brand"), T("M"))>>)),
               Section("hero", Obj(<<KV(S("title"), T("M"))>>))>>)

Manifests ==
    { BrandManifest,
      Manifest(<<Obj(<<KV(S("id"), T("hero")), KV(S("enabled"), Bool(FALSE))>>),
                 Section("gallery", Obj(<<KV(S("gallery"),
                                            Arr(<<Obj(Record("a.jpg", "A"))>>))>>))>>),
      Manifest(<<>>),
      Manifest(<<Section("hero", Obj(<<KV(S("title"), T("P"))>>)),
                 Section("gallery", Obj(<<KV(S("gallery"),
                                            Arr(<<Obj(Record("b.jpg", "B")), Null>>))>>))>>),
      StyledManifest }

\* bodies that are no object, or hold no sections array
BadBodies ==
    { Null, T("oops"), Num(5), Arr(<<>>), Obj(<<>>),
      Obj(<<KV(S("sections"), T("hero"))>>),
      Obj(<<KV(S("sections"), Obj(<<KV(S("hero"), Enabled(TRUE))>>))>>) }

Bodies == Manifests \cup BadBodies

HydrationMsgs ==
    { FieldUpdate(S("nav"), S("brand"), T("N")),
      FieldUpdate(S("hero"), S("title"), T("A")),
      SectionToggle(S("gallery"), FALSE),
      SectionToggle(S("hero"), TRUE) }

InitHydration ==
    \E url \in ManifestUrls \cup {NoUrl}, preview \in BOOLEAN :
        Loaded(HydrationPage, preview, TRUE, url)

ChannelStep == \E data \in HydrationMsgs : Deliver(PageOrigin, data)

NextHydration ==
    \/ ChannelStep
    \/ \E ok \in BOOLEAN, body \in Bodies : FetchResolves(ok, body)
    \/ FetchFails

SpecHydration == InitHydration /\ [][NextHydration]_vars

----------------------------------------------------------------------------
(* Remote hydration (SpecHydration). *)

\* the manifest reference begins with the secure scheme or a loopback origin
SecureOrLoopback(url) ==
    \/ startsWith(url, S("https://"))
    \/ startsWith(url, <<"http://", "localhost">>)
    \/ startsWith(url, <<"http://", "127.0.0.1">>)

\* C14: a manifest reference that begins with neither https:// nor
\* http://localhost nor http://127.0.0.1 is blocked at load: no fetch is ever
\* issued for it, and hydration takes no step afterwards, so that every step
\* of the page is a step of the channel.
C14_BlockedUrlDoesNothing ==
    /\ \A url \in ManifestUrls : ~SecureOrLoopback(url) => started(url) = "blocked"
    /\ [](\A i \in 1..Len(fetched) : SecureOrLoopback(fetched[i]))
    /\ [](hydration = "blocked" => fetched = <<>> /\ rootStyle = NoStyle)
    /\ [][hydration = "blocked"
            => /\ hydration' = "blocked"
               /\ fetched' = <<>>
               /\ rootStyle' = NoStyle
               /\ ChannelStep]_vars

C14_Witness ==
    /\ hydration = "blocked"
    /\ fetched = <<>>
    /\ isPreview
    /\ NodeAt(dom, <<3, 1>>).text = S("N")
    /\ display(dom, <<2>>) = S("none")

\* C15: hydration fetches at most once per load and never again; when the
\* response is not a success, or its body is no object or holds no sections
\* array, or the fetch fails, the step changes neither the document nor the
\* root's custom properties and ends the load in a failed state that hydration
\* never leaves.
C15_FailedLoadLeavesPage ==
    /\ [](Len(fetched) <= 1)
    /\ [][fetched' = fetched]_vars
    /\ [][\A ok \in BOOLEAN, body \in Bodies :
            (FetchResolves(ok, body) /\ (~ok \/ body \in BadBodies))
                => /\ dom' = dom
                   /\ rootStyle' = rootStyle
                   /\ hydration' = "rejected"]_vars
    /\ [][FetchFails => dom' = dom /\ rootStyle' = rootStyle /\ hydration' = "error"]_vars
    /\ [][(hydration = "rejected" \/ hydration = "error")
            => /\ hydration' = hydration
               /\ rootStyle' = rootStyle
               /\ ChannelStep]_vars

C15_Witness ==
    /\ hydration = "rejected"
    /\ fetched = <<ManifestUrl>>
    /\ NodeAt(dom, <<3, 1>>).text = S("N")
    /\ NodeAt(dom, <<3, 2>>).text = S("Acme")
    /\ NodeAt(dom, <<1, 1>>).text = EmptyStr


\* the nodes of the nav section that carry the field path brand
Twins == {<<3, 1>>, <<3, 2>>}

BrandUpdate == FieldUpdate(S("nav"), S("brand"), T("N"))

\* C17: when two nodes of one section share a field path, a field update for
\* that path with a non-null value leaves every one of them showing the new
\* value, through the message channel and through a hydrated manifest alike.
C17_TwinsUpdatedTogether ==
    /\ \A p \in Twins :
          NodeAt(received(PageOrigin, BrandUpdate).w.dom, p).text = S("N")
    /\ \A p \in Twins : NodeAt(hydrated(BrandManifest).dom, p).text = S("M")


RECURSIVE content(_)
\* a tree without its listeners and editing flags
content(n) ==
    [tag |-> n.tag, attr |-> n.attr, text |-> n.text, src |-> n.src, href |-> n.href,
     style |-> n.style, kids |-> [i \in 1..Len(n.kids) |-> content(n.kids[i])]]

\* manifests paired with the full-update that carries the same enabled flags
\* and the same field maps
Replays ==
    { <<BrandManifest,
        FullUpdate(Obj(<<KV(S("nav"), Obj(<<KV(S("brand"), T("M"))>>)),
                         KV(S("hero"), Obj(<<KV(S("title"), T("M"))>>))>>),
                   Obj(<<KV(S("nav"), Enabled(TRUE)), KV(S("hero"), Enabled(TRUE))>>))>>,
      <<StyledManifest,
        FullUpdate(Obj(<<KV(S("hero"), StyledData)>>),
                   Obj(<<KV(S("hero"), Enabled(TRUE))>>))>> }

\* C18: on a page whose channel is active, the document after applyManifest
\* equals the document after the full-update message that carries the same
\* enabled flags and field maps, style maps included.
C18_HydrationReplaysFullUpdate ==
    isPreview =>
        \A r \in Replays :
            content(hydrated(r[1]).dom) = content(received(PageOrigin, r[2]).w.dom)


----------------------------------------------------------------------------
(* Payloads of every shape (SpecSections). *)

\* messages of a known kind whose payload misses a part, or holds null, an
\* object or a primitive where another shape is expected
MalformedMsgs ==
    { DatalessUpdate,
      Msg("full-update", <<KV(S("data"), PlainData)>>),
      Msg("full-update", <<>>),
      FullUpdate(Null, Null),
      FullUpdate(Obj(<<KV(S("hero"), Null)>>), NoSections),
      StyleUpdate(S("hero"), S("title"), Null),
      Msg("style-update", <<KV(S("sectionId"), T("hero")), KV(S("field"), T("title"))>>),
      FieldUpdate(S("hero"), S("title"), Obj(<<KV(S("a"), Num(1))>>)),
      FieldUpdate(S("gallery"), S("gallery"), Arr(<<Null, T("x")>>)),
      Msg("field-update", <<>>),
      Msg("section-toggle", <<>>),
      Msg("section-highlight", <<>>),
      Msg("scroll-to-section", <<>>) }

\* C19: no admitted message of a known kind raises an error, whatever the
\* shape of its payload.
C19_NoMessageRaises ==
    \A m \in MalformedMsgs : ~received(PageOrigin, m).w.err


----------------------------------------------------------------------------
(* The editing surface: the page re-bound by full-updates and its list       *)
(* rebuilt, with a user at the page.                                         *)

BindingsPage == Body(<<HeroSection, GallerySection(<<Rendered>>)>>)

TitleUpdate == FullUpdate(Obj(<<KV(S("hero"), Obj(<<KV(S("title"), T("B"))>>))>>), NoSections)

\* a full-update whose gallery data carries one key that ends in __style
StyleKeyUpdate(value) ==
    FullUpdate(Obj(<<KV(S("gallery"), Obj(<<KV(<<"gallery", "__style">>, value)>>))>>),
               NoSections)

\* an object, an array of one record, a string and null under the style key
StyleKeyValues ==
    { Obj(<<KV(S("color"), T("red"))>>), Arr(<<Obj(Record("z.jpg", "Z"))>>), T("red"), Null }

BindingMsgs ==
    { TitleUpdate,
      ArrayUpdate(S("gallery"), <<Obj(Record("a.jpg", "A"))>>),
      ArrayUpdate(S("gallery"), <<Obj(Record("a.jpg", "A")), Obj(Record("b.jpg", "B"))>>),
      StyleKeyUpdate(Arr(<<Obj(Record("z.jpg", "Z"))>>)) }

InitBindings == Loaded(BindingsPage, TRUE, TRUE, NoUrl)

NextBindings ==
    \/ \E data \in BindingMsgs : Deliver(PageOrigin, data)
    \/ UserEvent

SpecBindings == InitBindings /\ [][NextBindings]_vars

----------------------------------------------------------------------------
(* Bindings of the editing surface (SpecBindings). *)

\* the elements setupInlineEditing made editable
editable(d) == {el \in Elements(d) : NodeAt(d, el).ce}

\* C16: after any number of setupInlineEditing calls every editable field node
\* carries exactly one focus/blur/input listener set, so one focus posts
\* exactly one element-selected event and one input exactly one field-edited
\* event.
C16_BindingIdempotent ==
    \A el \in editable(dom) :
        /\ NodeAt(dom, el).edit = 1
        /\ Len(focusPosts(dom, el)) = 1
        /\ Len(editPosts(PutAt(dom, el, setText(NodeAt(dom, el), S("typed"))), el)) = 1

\* the image field nodes that lie in a section
imageFields(d) ==
    {el \in Elements(d) : /\ NodeAt(d, el).tag = "img"
                          /\ NodeAt(d, el).attr.field # NoAttr
                          /\ getSectionId(d, el) # NoAttr}

\* C20: while the channel is active, a click on any image field node of a
\* section, one created by a list reconciliation included, posts an
\* element-selected event (image, the current source) and then an
\* image-replace-requested event, both with the node's section id and field
\* path, and nothing else.
C20_ImageClickSelects ==
    isPreview =>
        \A el \in imageFields(dom) :
            LET p == clickPosts(dom, el)
                at == [sectionId |-> getSectionId(dom, el),
                       field |-> NodeAt(dom, el).attr.field]
            IN  /\ Len(p) = 2
                /\ p[1].msg = [type |-> "element-selected", sectionId |-> at.sectionId,
                               field |-> at.field, elementType |-> "image",
                               content |-> NodeAt(dom, el).src]
                /\ p[2].msg = [type |-> "image-replace-requested",
                               sectionId |-> at.sectionId, field |-> at.field]


\* the list container of the gallery section
GalleryList == <<2, 1>>

\* C21: in a full-update a field-map key that ends in __style goes to the
\* style patcher whatever the type of its value, so it reaches neither the
\* value applier nor the list reconciler: the gallery's list is as it was.
C21_StyleKeysNeverReachAppliers ==
    isPreview =>
        \A value \in StyleKeyValues :
            content(NodeAt(received(PageOrigin, StyleKeyUpdate(value)).w.dom, GalleryList))
                = content(NodeAt(dom, GalleryList))


----------------------------------------------------------------------------
(* Several list containers in one section: three named after the section,    *)
(* one of them rendered empty, and one with a name of its own.               *)

\* <ul data-dr-list="name">
ListEl(name, items) ==
    El("ul", Attrs(NoAttr, NoAttr, name, NoAttr, NoAttr),
       EmptyStr, EmptyStr, EmptyStr, NoStyle, items)

Strip == S("strip")

ContainersPage ==
    Body(<< El("section", Attrs(S("gallery"), NoAttr, NoAttr, NoAttr, NoAttr),
               EmptyStr, EmptyStr, EmptyStr, NoStyle,
               << ListEl(S("gallery"), <<Rendered>>),
                  ListEl(S("gallery"), <<>>),
                  ListEl(S("gallery"), <<Earlier>>),
                  ListEl(Strip, <<Rendered>>) >>) >>)

\* the containers named after the section, and all four
GalleryLists == {<<1, 1>>, <<1, 2>>, <<1, 3>>}

Lists == GalleryLists \cup {<<1, 4>>}

\* a record with a key that no field node names (href), and one without an
\* image source
Records ==
    { Obj(Record("a.jpg", "A") \o <<KV(S("label"), T("One")), KV(S("href"), T("/one"))>>),
      Obj(<<KV(S("caption"), T("C")), KV(S("label"), T("Three"))>>) }

\* the items arrays of n of these records
RecordLists(n) == [1..n -> Records]

InitContainers == Loaded(ContainersPage, TRUE, TRUE, NoUrl)

\* array updates of up to MaxItems records for the lists the field names, and
\* of at most one record through the fallback
NextContainers ==
    \/ \E n \in 0..MaxItems : \E items \in RecordLists(n) :
          Deliver(PageOrigin, ArrayUpdate(S("gallery"), items))
    \/ \E n \in 0..MaxItems : \E items \in RecordLists(n) :
          Deliver(PageOrigin, ArrayUpdate(Strip, items))
    \/ \E n \in 0..1 : \E items \in RecordLists(n) :
          Deliver(PageOrigin, ArrayUpdate(Unlisted, items))

SpecContainers == InitContainers /\ [][NextContainers]_vars

----------------------------------------------------------------------------
(* Containers of a list (SpecContainers). *)

\* the item nodes of the container at listEl
itemsOf(d, listEl) == SelectSeq(NodeAt(d, listEl).kids, LAMBDA k : k.attr.item # NoAttr)

\* the keys of a record
keys(itemData) == {itemData.e[i].k : i \in 1..Len(itemData.e)}

\* the field nodes of the item it that no key of the record names are as in
\* the template
restAsTemplate(it, template, itemData) ==
    \A el \in Elements(it) :
        (NodeAt(it, el).attr.field # NoAttr /\ NodeAt(it, el).attr.field \notin keys(itemData))
            => content(NodeAt(it, el)) = content(NodeAt(template, el))

\* the container at listEl of d holds exactly the records of items,
\* written into copies of the first item it held in before
reconciled(before, d, listEl, items) ==
    /\ exactly(itemsOf(d, listEl), items)
    /\ \A i \in 1..Len(items) :
          restAsTemplate(itemsOf(d, listEl)[i], itemsOf(before, listEl)[1], items[i])

\* the containers an array update for field is to reach
reached(field) == IF field = Strip THEN {<<1, 4>>} ELSE GalleryLists

\* the update reconciled every container it is to reach that holds a template
\* item, and left every other container as it was
containersReconciled(before, d, field, items) ==
    \A listEl \in Lists :
        IF listEl \in reached(field) /\ itemsOf(before, listEl) # <<>>
        THEN reconciled(before, d, listEl, items)
        ELSE NodeAt(d, listEl) = NodeAt(before, listEl)

\* C22: an array update reconciles every container of the section that is
\* tagged with the list name, and those tagged with the fallback name only
\* when none carries the list name; a container without a template item is
\* left as it is while the others are reconciled; a key of a record that no
\* field node of the template names is skipped, the record's other keys
\* written.
C22_EveryContainerReconciled ==
    /\ \A field \in {S("gallery"), Strip} :
          \A n \in 0..MaxItems : \A items \in RecordLists(n) :
             containersReconciled(dom, afterArrayUpdate(dom, field, items), field, items)
    /\ \A n \in 0..1 : \A items \in RecordLists(n) :
          containersReconciled(dom, afterArrayUpdate(dom, Unlisted, items), Unlisted, items)

\* the first and the third container hold the same two records, the first of
\* them with a key no field node names; the second is still empty and the
\* strip holds a record of its own
C22_Witness ==
    /\ Len(itemsOf(dom, <<1, 1>>)) = 2
    /\ itemsOf(dom, <<1, 3>>) = itemsOf(dom, <<1, 1>>)
    /\ NodeAt(dom, <<1, 1, 1, 3>>).href = S("/one")
    /\ NodeAt(dom, <<1, 1, 2, 2>>).text = S("C")
    /\ NodeAt(dom, <<1, 2>>).kids = <<>>
    /\ Len(itemsOf(dom, <<1, 4>>)) = 1
    /\ NodeAt(dom, <<1, 4, 1, 2>>).text = S("C")


----------------------------------------------------------------------------
(* Partial theme records, through a full-update and through the manifest.    *)

Leaves(kvs) == Obj([i \in 1..Len(kvs) |-> KV(S(kvs[i][1]), T(kvs[i][2]))])

\* theme records that each hold some of the nine leaves, the empty record,
\* one whose only leaf is the empty string and one whose colors are no map
Themes ==
    { Obj(<<KV(S("colors"), Leaves(<< <<"primary", "#111">>,
                                      <<"primaryForeground", "#fff">>,
                                      <<"background", "#eee">> >>))>>),
      Obj(<<KV(S("colors"), Leaves(<< <<"primary", "#222">>, <<"surface", "#ddd">>,
                                      <<"muted", "#999">>, <<"border", "#ccc">> >>))>>),
      Obj(<<KV(S("typography"), Leaves(<< <<"fontSans", "Inter">>,
                                          <<"fontSerif", "Georgia">> >>))>>),
      Obj(<<KV(S("typography"), Leaves(<< <<"fontSerif", "Times">> >>)),
            KV(S("radius"), Leaves(<< <<"base", "4px">> >>))>>),
      Obj(<<KV(S("radius"), Leaves(<< <<"base", "8px">> >>)),
            KV(S("colors"), Leaves(<< <<"background", "#000">> >>))>>),
      Obj(<<>>),
      Obj(<<KV(S("colors"), Obj(<<KV(S("primary"), Str(EmptyStr))>>))>>),
      Obj(<<KV(S("colors"), T("red")), KV(S("radius"), Null)>>) }

ThemeUpdate(theme) == FullUpdate(Obj(<<KV(S("theme"), theme)>>), NoSections)

ThemeManifest(theme) == Manifest(<<Section("theme", theme)>>)

\* a page whose theme section holds no field node, so that no full-update
\* adds a listener
PalettePage ==
    Body(<< El("section", Attrs(S("theme"), NoAttr, NoAttr, NoAttr, NoAttr),
               EmptyStr, EmptyStr, EmptyStr, NoStyle,
               << El("p", NoAttrs, S("Palette"), EmptyStr, EmptyStr, NoStyle, <<>>) >>) >>)

InitTheme == Loaded(PalettePage, TRUE, TRUE, ManifestUrl)

NextTheme ==
    \/ \E theme \in Themes : Deliver(PageOrigin, ThemeUpdate(theme))
    \/ \E theme \in Themes : FetchResolves(TRUE, ThemeManifest(theme))

SpecTheme == InitTheme /\ [][NextTheme]_vars

----------------------------------------------------------------------------
(* Custom properties of the root (SpecTheme). *)

\* the nine custom properties: the part of the record, the leaf, the property
ThemeProperties ==
    { <<"colors", "primary", "--primary">>,
      <<"colors", "primaryForeground", "--primary-foreground">>,
      <<"colors", "background", "--background">>,
      <<"colors", "surface", "--surface">>,
      <<"colors", "muted", "--muted">>,
      <<"colors", "border", "--border">>,
      <<"typography", "fontSans", "--font-sans">>,
      <<"typography", "fontSerif", "--font-serif">>,
      <<"radius", "base", "--radius">> }

\* the leaf of the theme record under part and k, or Undef
leaf(theme, part, k) ==
    IF Prop(theme, S(part)).t = "object" THEN Prop(Prop(theme, S(part)), S(k)) ELSE Undef

\* the value of property name in the style, or Undef
varOf(style, name) == IF name \in DOMAIN style THEN Str(style[name]) ELSE Undef

\* root is the style before with the present leaves of theme written and
\* nothing else changed
themed(before, root, theme) ==
    /\ DOMAIN root \subseteq DOMAIN before \cup {p[3] : p \in ThemeProperties}
    /\ \A p \in ThemeProperties :
          IF leaf(theme, p[1], p[2]).t = "string" /\ leaf(theme, p[1], p[2]).s # EmptyStr
          THEN varOf(root, p[3]) = leaf(theme, p[1], p[2])
          ELSE varOf(root, p[3]) = varOf(before, p[3])

\* C23: applying a theme record writes the custom property of every leaf the
\* record holds and leaves each of the nine properties whose leaf is absent at
\* the value it had, set or unset, through a full-update and through a
\* manifest alike; the document is untouched.
C23_AbsentLeavesKeepValue ==
    \A theme \in Themes :
        /\ themed(rootStyle, received(PageOrigin, ThemeUpdate(theme)).w.root, theme)
        /\ themed(rootStyle, hydrated(ThemeManifest(theme)).root, theme)
        /\ received(PageOrigin, ThemeUpdate(theme)).w.dom = dom
        /\ hydrated(ThemeManifest(theme)).dom = dom

\* the primary colour was supplied twice, the foreground and the sans font
\* once, and later partial records left them alone
C23_Witness ==
    /\ hydration = "applied"
    /\ varOf(rootStyle, "--primary") = T("#222")
    /\ varOf(rootStyle, "--primary-foreground") = T("#fff")
    /\ varOf(rootStyle, "--background") = T("#000")
    /\ varOf(rootStyle, "--font-sans") = T("Inter")
    /\ varOf(rootStyle, "--font-serif") = T("Times")
    /\ varOf(rootStyle, "--radius") = T("8px")


----------------------------------------------------------------------------
(* manifest-loader.ts: the data-access layer over the bundled manifest. *)

RECURSIVE lastSection(_, _, _)
\* new Map(sections.map((s) => [s.id, s])).get(sectionId): a later section of
\* the same id replaces an earlier one
lastSection(sections, sectionId, i) ==
    IF i = 0 THEN Undef
    ELSE IF Prop(sections[i], S("id")) = sectionId THEN sections[i]
    ELSE lastSection(sections, sectionId, i - 1)

sectionsMapGet(manifest, sectionId) ==
    lastSection(Prop(manifest, S("sections")).a, sectionId,
                Len(Prop(manifest, S("sections")).a))

RECURSIVE ldr_indexItems(_, _, _)
\* for (const item of col.data) collectionItemIndex.set(item.id, item)
ldr_indexItems(index, items, i) ==
    IF i > Len(items) THEN index
    ELSE ldr_indexItems(mapSet(index, Prop(items[i], S("id")), items[i]), items, i + 1)

RECURSIVE ldr_indexCollections(_, _, _)
\* for (const col of collections)
ldr_indexCollections(index, cols, i) ==
    IF i > Len(cols) THEN index
    ELSE ldr_indexCollections(ldr_indexItems(index, Prop(cols[i], S("data")).a, 1),
                              cols, i + 1)

\* the flat item index, over manifest.collections ?? []
collectionItemIndex(manifest) ==
    ldr_indexCollections(<<>>, orEmpty(Prop(manifest, S("collections"))), 1)

\* section.data ?? {}
dataOrEmpty(section) ==
    IF Nullish(Prop(section, S("data"))) THEN Obj(<<>>) ELSE Prop(section, S("data"))

\* the schema loop over the copy { ...data } (its body is that of the
\* injector's resolver)
ldr_resolved(data, properties, index) ==
    Obj(resolveKeys([data |-> entries(data), err |-> FALSE],
                    entries(properties), index, 1).data)

\* getSectionData once the section is looked up
sectionDataOf(section, index) ==
    IF section = Undef THEN Obj(<<>>)
    ELSE IF \/ ~typeofObject(dataOrEmpty(section))
            \/ Nullish(Prop(section, S("schema")))
            \/ ~Truthy(Prop(Prop(section, S("schema")), S("properties")))
    THEN dataOrEmpty(section)
    ELSE ldr_resolved(dataOrEmpty(section),
                      Prop(Prop(section, S("schema")), S("properties")), index)

getSectionData(manifest, sectionId) ==
    sectionDataOf(sectionsMapGet(manifest, sectionId), collectionItemIndex(manifest))


----------------------------------------------------------------------------
(* A section whose members field picks records of a collection, hydrated     *)
(* from manifests that carry collections.                                    *)

\* <section data-dr-section="team">: a heading and a list of names
TeamPage ==
    Body(<< El("section", Attrs(S("team"), NoAttr, NoAttr, NoAttr, NoAttr),
               EmptyStr, EmptyStr, EmptyStr, NoStyle,
               << FieldEl("h2", S("title"), S("Staff"), EmptyStr, EmptyStr, NoStyle),
                  El("ul", Attrs(NoAttr, NoAttr, S("members"), NoAttr, NoAttr),
                     EmptyStr, EmptyStr, EmptyStr, NoStyle,
                     << El("li", Attrs(NoAttr, NoAttr, NoAttr, EmptyStr, NoAttr),
                           EmptyStr, EmptyStr, EmptyStr, NoStyle,
                           << FieldEl("span", S("name"), S("Zed"), EmptyStr, EmptyStr,
                                      NoStyle) >>) >>) >>) >>)

Person(id, name) == Obj(<<KV(S("id"), T(id)), KV(S("name"), T(name))>>)

Named(name) == Obj(<<KV(S("name"), T(name))>>)

Collection(id, items) == Obj(<<KV(S("id"), T(id)), KV(S("data"), Arr(items))>>)

People == Collection("people", <<Person("p1", "Ann"), Person("p2", "Bob")>>)

\* a collection with an item whose id is the empty string
Drafts ==
    Collection("drafts", << Obj(<<KV(S("id"), Str(EmptyStr)), KV(S("name"), T("Nobody"))>>),
                            Person("p3", "Cy") >>)

RefCollections == { <<People>>, <<People, Drafts>>, <<>> }

Widget(name) == Obj(<<KV(S("uiWidget"), T(name))>>)

\* members marked as a reference picker, and as plain text
PickerSchema ==
    Obj(<<KV(S("properties"), Obj(<<KV(S("members"), Widget("collectionPicker")),
                                    KV(S("title"), Widget("text"))>>))>>)

TextSchema ==
    Obj(<<KV(S("properties"), Obj(<<KV(S("members"), Widget("text"))>>))>>)

TeamData(members) == Obj(<<KV(S("title"), T("Team")), KV(S("members"), Arr(members))>>)

\* ids known and unknown, the empty id, records, ids mixed with a record, no
\* member, and a section whose data is an array
RefData ==
    { TeamData(<<T("p2"), T("p1"), T("zz")>>),
      TeamData(<<Str(EmptyStr), T("p3")>>),
      TeamData(<<Named("Dee")>>),
      TeamData(<<T("p1"), Named("Dee")>>),
      TeamData(<<>>),
      Arr(<<T("x"), T("y")>>) }

RefSections ==
    { Obj(<<KV(S("id"), T("team")), KV(S("data"), data), KV(S("schema"), schema)>>) :
        data \in RefData, schema \in {PickerSchema, TextSchema} }
    \cup { Section("team", data) : data \in RefData }

RefManifest(section, cols) ==
    Obj(<<KV(S("sections"), Arr(<<section>>)), KV(S("collections"), Arr(cols))>>)

TeamMsgs ==
    { FieldUpdate(S("team"), S("title"), T("A")),
      FieldUpdate(S("team"), S("title"), T("B")),
      FieldUpdate(S("team"), S("members"), Arr(<<Named("Eve")>>)),
      FieldUpdate(S("team"), S("members"), Arr(<<Named("Fay")>>)),
      FieldUpdate(S("team"), S("members"), Arr(<<Named("Eve"), Named("Fay")>>)),
      SectionToggle(S("team"), FALSE) }

InitRefs == Loaded(TeamPage, TRUE, TRUE, ManifestUrl)

NextRefs ==
    \/ \E data \in TeamMsgs : Deliver(PageOrigin, data)
    \/ \E section \in RefSections, cols \in RefCollections :
          FetchResolves(TRUE, RefManifest(section, cols))

SpecRefs == InitRefs /\ [][NextRefs]_vars

----------------------------------------------------------------------------
(* Collection references (SpecRefs). *)

\* the items of the collections that carry the id
itemsOfId(cols, id) ==
    UNION { {Prop(cols[c], S("data")).a[i] : i \in 1..Len(Prop(cols[c], S("data")).a)}
            : c \in 1..Len(cols) } \cap {item \in UNION { {Prop(cols[c], S("data")).a[i]
                : i \in 1..Len(Prop(cols[c], S("data")).a)} : c \in 1..Len(cols) } :
                    Prop(item, S("id")) = id}

\* records are the item records of the ids, in their order, the ids found in
\* no collection left out
recordsOf(records, ids, cols) ==
    LET found == SelectSeq(ids, LAMBDA id : itemsOfId(cols, id) # {})
    IN  /\ Len(records) = Len(found)
        /\ \A i \in 1..Len(found) : records[i] \in itemsOfId(cols, found[i])

\* the value is an array of bare reference ids
bareIds(v) == isArray(v) /\ \A i \in 1..Len(v.a) : v.a[i].t = "string"

\* the schema of the section marks the field as a reference picker
picker(section, key) ==
    Prop(Prop(Prop(Prop(section, S("schema")), S("properties")), key), S("uiWidget"))
        = T("collectionPicker")

\* resolved is the section's data with the picked fields of bare ids replaced
\* by their records and every other field as stored
resolvedFrom(resolved, section, cols) ==
    LET data == Prop(section, S("data"))
    IN  IF data.t # "object" THEN resolved = data
        ELSE /\ resolved.t = "object"
             /\ Len(resolved.e) = Len(data.e)
             /\ \A i \in 1..Len(data.e) :
                   /\ resolved.e[i].k = data.e[i].k
                   /\ IF picker(section, data.e[i].k) /\ bareIds(data.e[i].v)
                      THEN /\ isArray(resolved.e[i].v)
                           /\ recordsOf(resolved.e[i].v.a, data.e[i].v.a, cols)
                      ELSE resolved.e[i].v = data.e[i].v

\* C24: resolution replaces a field's value only when the schema marks the
\* field as a reference picker and the value is an array of bare reference
\* ids, by the records of those ids in their order, unknown ids left out;
\* every other field is returned as stored; and the injector's resolver and
\* the loader's getSectionData return the same data for the same section and
\* collections, for every manifest the page may fetch.
C24_ReferencesResolved ==
    hydration # "off" =>
    \A section \in RefSections, cols \in RefCollections :
        LET manifest == RefManifest(section, cols)
            injected == resolveCollectionRefs(section, collectionIndex(manifest).map)
            loaded == getSectionData(manifest, T("team"))
        IN  /\ ~injected.err
            /\ Obj(injected.data) = loaded
            /\ resolvedFrom(loaded, section, cols)

----------------------------------------------------------------------------
(* The life of the embedded channel: INACTIVE or ACTIVE from page load on    *)
(* (SpecChannel).                                                            *)

\* the one postMessage call a ready event is
Ready == <<[msg |-> [type |-> "ready"], target |-> Unlatched]>>

\* initPreviewRuntime has run on the page as it was served
Active == dom = setupImageClickHandlers(setupInlineEditing(HeroPage))

\* no ready event among the postMessage calls of a step
NoReady(events) == \A i \in 1..Len(events) : events[i].msg.type # "ready"

\* the parts of C25 that do not depend on where the page is loaded
ChannelLife ==
    /\ isPreview <=> Active
    /\ ~isPreview => dom = HeroPage
    /\ [][isPreview' = isPreview]_vars
    /\ [](~isPreview => posted = <<>>)
    /\ [][~isPreview => /\ dom' = dom
                        /\ parentOrigin' = parentOrigin
                        /\ highlightedEl' = highlightedEl]_vars
    /\ [][NoReady(posted')]_vars

\* C25, as stated: the channel is ACTIVE exactly when the preview flag was in
\* the URL at page load; while INACTIVE no step changes the document, Parent
\* Origin or the highlight and nothing is ever posted; entering ACTIVE posts
\* exactly one ready event; and an ACTIVE channel stays ACTIVE.
C25_ReadyOnEnteringActive ==
    /\ ChannelLife
    /\ isPreview => posted = Ready

\* C25, amended: as above, but entering ACTIVE posts exactly one ready event
\* when the page has a parent window other than itself, and none when the
\* page is its own parent (loaded in a top-level window).
C25_ReadyToEmbeddingParent ==
    /\ ChannelLife
    /\ posted = IF isPreview /\ embedded THEN Ready ELSE <<>>

C25_Witness ==
    /\ isPreview
    /\ embedded
    /\ posted = Ready
    /\ parentOrigin = Unlatched
    /\ Active

----------------------------------------------------------------------------
(* Admission against the latched origin (SpecChannel). *)

\* payloads the switch of handleMessage has no case for: empty, untyped, of an
\* unknown kind
IgnoredMsgs == {Null, Obj(<<KV(S("sectionId"), T("hero"))>>), Msg("reload", <<>>)}

TitleA == FieldUpdate(S("hero"), S("title"), T("A"))

\* what the handler leaves when it does nothing but latch origin
latchedOnly(origin) ==
    [w |-> World(dom, highlightedEl, rootStyle), po |-> latch(parentOrigin, origin)]

\* C26: admission never consults the latched Parent Origin.  Once it is
\* latched to O1, a message from another origin O2 that passes the origin
\* test is handled exactly as the same message from O1 would be (a
\* field-update of the title changes the document), Parent Origin stays O1
\* and every event posted afterwards goes to O1; and a message that passes
\* the origin test latches its origin even when its payload is empty, untyped
\* or of an unknown kind, changing nothing else.
C26_AdmissionIgnoresLatch ==
    /\ [](isPreview /\ parentOrigin # Unlatched =>
            \A O2 \in ChannelOrigins \ {parentOrigin} :
                originAdmitted(O2) =>
                    /\ \A data \in ChannelMsgs :
                           /\ received(O2, data) = received(parentOrigin, data)
                           /\ received(O2, data).po = parentOrigin
                    /\ NodeAt(dom, <<1, 1>>).text # S("A")
                           => received(O2, TitleA).w.dom # dom)
    /\ [][parentOrigin # Unlatched =>
            \A i \in 1..Len(posted') : posted'[i].target = parentOrigin]_vars
    /\ [](isPreview =>
            \A origin \in ChannelOrigins, data \in IgnoredMsgs :
                originAdmitted(origin) =>
                    /\ received(origin, data) = latchedOnly(origin)
                    /\ parentOrigin = Unlatched => received(origin, data).po = origin)

C26_Witness ==
    /\ isPreview
    /\ embedded
    /\ parentOrigin = <<"http://", "localhost", ":3000">>
    /\ Len(posted) = 1
    /\ posted[1].msg.type = "element-selected"
    /\ posted[1].msg.content = S("A")
    /\ posted[1].target = parentOrigin

----------------------------------------------------------------------------
(* Both transports on one page load: the order of a field-update and the     *)
(* manifest application (SpecField).                                         *)

\* the writes ws address the hero field f
addresses(ws, f) == \E i \in 1..Len(ws) : ws[i].s = S("hero") /\ ws[i].f = f

\* the value of the last of the writes ws that addresses the hero field f
lastTo(ws, f) ==
    LET at == {i \in 1..Len(ws) : ws[i].s = S("hero") /\ ws[i].f = f}
    IN  ws[CHOOSE i \in at : \A j \in at : j <= i].v

\* a value the appliers write to a field node
written(v) == ~Nullish(v) /\ ~isArray(v)

\* the document after the field-update was handled and then body applied
updateThenManifest(update, body) ==
    applyManifest(received(PageOrigin, update).w, body).dom

\* the document after body was applied and then the field-update handled
manifestThenUpdate(update, body) ==
    handleMessage(hydrated(body), parentOrigin, PageOrigin, update).w.dom

\* every step is one whole handler run or one whole run of the manifest
\* application, on the document the step before it left
WholeRuns ==
    [][ \/ /\ hydration' = hydration
           /\ \E data \in FieldMsgs :
                 /\ dom' = received(PageOrigin, data).w.dom
                 /\ rootStyle' = received(PageOrigin, data).w.root
        \/ /\ hydration = "pending"
           /\ hydration' = "applied"
           /\ \E body \in FieldManifests :
                 /\ dom' = hydrated(body).dom
                 /\ rootStyle' = hydrated(body).root
        \/ /\ hydration = "pending"
           /\ hydration' = "error"
           /\ dom' = dom ]_vars

=============================================================================
